---- MODULE Spec2Model ----
(***************************************************************************)
(* Model of the free-text feedback extractor of the weekly progress report *)
(* tool (src/apps/wpr/ai_analyzer.py, class AIHRAnalyzer).                 *)
(*                                                                         *)
(* A Python str is modelled as a sequence of tokens.  A token is a word, a *)
(* single digit, a punctuation character or a single whitespace character. *)
(* Word tokens contain no digit, no whitespace and none of the characters  *)
(* the code looks for, so every str operation the code uses (strip, lower, *)
(* startswith, in, split, replace, slicing, re.search) is computed on the  *)
(* token sequence exactly as Python computes it on the characters.         *)
(*                                                                         *)
(* A Python float with one decimal is modelled by its value in tenths      *)
(* (4.7 is 47, 4.0 is 40, 0 is 0); an int is modelled by itself.           *)
(***************************************************************************)
EXTENDS Integers, Sequences, FiniteSets, TLC

VARIABLES
    analysis_text,      \* the argument of the running call: [type, value]
    mpc,                \* position of the _extract_metrics call
    metrics,            \* the record _extract_metrics returned
    rpc,                \* position of the _extract_recommendations call
    sections,           \* analysis_text.split('\n')
    idx,                \* index (from 1) of the next element of sections the loop reads
    current_section,    \* '' | 'actions' | 'wellness'
    recommendations,    \* the local dict of _extract_recommendations
    rec_result,         \* the record _extract_recommendations returned
    api_response,       \* what client.messages.create does in generate_hr_analysis
    apc,                \* position of the generate_hr_analysis call
    hr_result,          \* the record generate_hr_analysis returned
    wv_line,            \* the argument of a direct _extract_wellness_value call
    wv_pc,              \* position of that call
    wv_result,          \* the str it returned
    ncalls,             \* number of extractions started on analysis_text
    prev_metrics,       \* what the previous extraction returned
    prev_rec_result,
    ctext,              \* per concurrent caller: the argument,
    cpc,                \*   the position of the call,
    csections,          \*   and its locals sections,
    cidx,               \*   the loop index,
    csection,           \*   current_section,
    crecs,              \*   recommendations,
    cresult,            \*   and the record returned
    profile,            \* a UserProfile
    wpr_user_id,        \* the argument of can_view_wpr / can_edit_wpr
    perm_pc,            \* position of the permission check
    perm_result,        \* [view, edit]: what the two methods returned
    tasks_arg,          \* the argument of InputValidator.validate_tasks
    tasks_pc,           \* position of that call
    tasks_result,       \* the list it returned
    projects_arg,       \* the argument of InputValidator.validate_projects
    projects_pc,        \* position of that call
    projects_result,    \* the list it returned
    tr_table,           \* the user_profiles table: user_id -> stored row
    session,            \* st.session_state of the signed-in browser session
    cat_session,        \* st.session_state of a Component Catalog session
    categories,         \* the categories table: id -> name
    tr_args,            \* the arguments of update_team_role: user_id, team_id, new_role
    tr_outcome,         \* what the store does: [fetch, update]
    tr_pc,              \* position of the update_team_role call
    tr_result,          \* the profile it returned, or None
    tr_updates,         \* the update requests sent to the store
    event,              \* the widget input that started the run
    a_pc,               \* position of UnifiedApp.run: start | checked | done
    check_ok,           \* what check_session returned in the run
    shown,              \* what the run has rendered: none | login | an application view
    auth_calls,         \* the sign_in_with_password / sign_up calls of the run
    logged_out,         \* Logout was handled and no login has succeeded since
    cat_page,           \* the page the catalog rendered last
    cat_rerun,          \* st.rerun() ended the last run: the next run has no widget input
    cat_event,          \* the kind of widget input the last run handled
    last_save,          \* the last save_component call: mode, step, id, selection, outcome
    comp_category,      \* components.category_id of every component: a category id or "None"
    issued,             \* the category ids the database has issued so far
    data_cache,         \* the st.cache_data entry of get_cached_categories, shared by all sessions
    session_cache,      \* the categories frame each session keeps in its session state
    editing_category,   \* st.session_state.editing_category of each session
    meta_op             \* the last operation of the metadata page and what it did

metricVars == <<mpc, metrics>>
recVars == <<rpc, sections, idx, current_section, recommendations, rec_result>>
analysisVars == <<api_response, apc, hr_result>>
wellnessVars == <<wv_line, wv_pc, wv_result>>
repeatVars == <<ncalls, prev_metrics, prev_rec_result>>
concVars == <<ctext, cpc, csections, cidx, csection, crecs, cresult>>
permVars == <<profile, wpr_user_id, perm_pc, perm_result>>
taskVars == <<tasks_arg, tasks_pc, tasks_result>>
projVars == <<projects_arg, projects_pc, projects_result>>

\* the state of the other parts of the application
teamVars == <<tr_table, tr_args, tr_outcome, tr_pc, tr_result, tr_updates>>
authVars == <<session, event, a_pc, check_ok, shown, auth_calls, logged_out>>
catVars == <<cat_session, cat_page, cat_rerun, cat_event, last_save>>
metaVars == <<categories, comp_category, issued, data_cache, session_cache,
              editing_category, meta_op>>
appVars == <<projVars, teamVars, authVars, catVars, metaVars>>

\* the state of the feedback extractor, the permission check and the task
\* validator
extractorVars == <<analysis_text, metricVars, recVars, analysisVars,
                   wellnessVars, repeatVars, concVars, permVars, taskVars>>

\* the variables the two extractor calls on analysis_text do not touch
otherVars == <<analysisVars, wellnessVars, repeatVars, concVars, permVars,
               taskVars, appVars>>

vars == <<analysis_text, metricVars, recVars, otherVars>>

----------------------------------------------------------------------------
(* Bounds of the model                                                     *)

MaxFrags == 4

MaxLines == 4

MaxTokens == 4

----------------------------------------------------------------------------
(* Python str operations on token sequences                                *)

Digits == {"0", "1", "2", "3", "4", "5", "6", "7", "8", "9"}

Whitespace == {" ", "\t", "\n"}

\* the bullet glyph U+2022, one character
Bullet == "U+2022"

\* the upper/mixed-case word tokens of the model and their lower-case form
LowerTable ==
    [w \in {"Project", "Progress", "Action", "Plan",
            "RECOMMENDATIONS", "Wellness", "Work", "Life", "Balance",
            "Workload", "Engagement", "Good", "Heavy", "High", "Do", "X",
            "Y", "Focus", "Maintain", "Document", "Alice", "IOL", "PH",
            "Backend", "Frontend"} |->
       CASE w = "Project" -> "project"
         [] w = "Progress" -> "progress"
         [] w = "Action" -> "action"
         [] w = "Plan" -> "plan"
         [] w = "RECOMMENDATIONS" -> "recommendations"
         [] w = "Wellness" -> "wellness"
         [] w = "Work" -> "work"
         [] w = "Life" -> "life"
         [] w = "Balance" -> "balance"
         [] w = "Workload" -> "workload"
         [] w = "Engagement" -> "engagement"
         [] w = "Good" -> "good"
         [] w = "Heavy" -> "heavy"
         [] w = "High" -> "high"
         [] w = "Do" -> "do"
         [] w = "X" -> "x"
         [] w = "Y" -> "y"
         [] w = "Focus" -> "focus"
         [] w = "Maintain" -> "maintain"
         [] w = "Document" -> "document"
         [] w = "Alice" -> "alice"
         [] w = "IOL" -> "iol"
         [] w = "PH" -> "ph"
         [] w = "Backend" -> "backend"
         [] w = "Frontend" -> "frontend"]

LowerTok(c) == IF c \in DOMAIN LowerTable THEN LowerTable[c] ELSE c

\* s.lower()
str_lower(s) == [i \in 1..Len(s) |-> LowerTok(s[i])]

\* s.startswith(p)
str_startswith(s, p) == Len(s) >= Len(p) /\ SubSeq(s, 1, Len(p)) = p

\* s.endswith(p)
str_endswith(s, p) ==
    Len(s) >= Len(p) /\ SubSeq(s, Len(s) - Len(p) + 1, Len(s)) = p

\* p in s
str_contains(s, p) ==
    \E i \in 1..(Len(s) - Len(p) + 1) : SubSeq(s, i, i + Len(p) - 1) = p

\* s.strip()
str_strip(s) ==
    LET keep == {i \in 1..Len(s) : s[i] \notin Whitespace}
    IN  IF keep = {} THEN <<>>
        ELSE LET lo == CHOOSE i \in keep : \A j \in keep : i <= j
                 hi == CHOOSE i \in keep : \A j \in keep : j <= i
             IN  SubSeq(s, lo, hi)

\* s.replace(c, '') for a one-character c
str_remove(s, c) == SelectSeq(s, LAMBDA x : x # c)

\* s.split(sep) for a one-character sep: always at least one element
RECURSIVE str_split_sep(_, _)
str_split_sep(s, sep) ==
    LET at == {i \in 1..Len(s) : s[i] = sep}
    IN  IF at = {} THEN <<s>>
        ELSE LET p == CHOOSE i \in at : \A j \in at : i <= j
             IN  <<SubSeq(s, 1, p - 1)>> \o
                 str_split_sep(SubSeq(s, p + 1, Len(s)), sep)

\* s.split(): the maximal runs of non-whitespace, none of them empty
RECURSIVE str_split(_)
str_split(s) ==
    LET t == str_strip(s)
        ws == {i \in 1..Len(t) : t[i] \in Whitespace}
    IN  IF t = <<>> THEN <<>>
        ELSE IF ws = {} THEN <<t>>
        ELSE LET p == CHOOSE i \in ws : \A j \in ws : i <= j
             IN  <<SubSeq(t, 1, p - 1)>> \o
                 str_split(SubSeq(t, p + 1, Len(t)))

DigitVal(d) ==
    CASE d = "0" -> 0 [] d = "1" -> 1 [] d = "2" -> 2 [] d = "3" -> 3
      [] d = "4" -> 4 [] d = "5" -> 5 [] d = "6" -> 6 [] d = "7" -> 7
      [] d = "8" -> 8 [] d = "9" -> 9

\* int(s) for a str of decimal digits
RECURSIVE int_(_)
int_(s) ==
    IF s = <<>> THEN 0
    ELSE 10 * int_(SubSeq(s, 1, Len(s) - 1)) + DigitVal(s[Len(s)])

\* float(s) for a str of the shape d or d.d, in tenths
float_(s) ==
    IF Len(s) = 3 THEN 10 * DigitVal(s[1]) + DigitVal(s[3])
    ELSE 10 * DigitVal(s[1])

----------------------------------------------------------------------------
(* re.search of the four metric patterns (flag re.I)                       *)

NoMatch == <<>>

kw_productivity == <<"productivity">>
kw_task_completion == <<"task", " ", "completion">>
kw_project_progress == <<"project", " ", "progress">>
kw_collaboration == <<"collaboration">>

\* the group ([0-4](?:\.\d)?) tried at position m: the text it captures,
\* NoMatch when it does not match there.  The optional part is greedy.
group_score(text, m) ==
    IF m > Len(text) \/ text[m] \notin {"0", "1", "2", "3", "4"} THEN NoMatch
    ELSE IF m + 2 <= Len(text) /\ text[m + 1] = "." /\ text[m + 2] \in Digits
         THEN SubSeq(text, m, m + 2)
         ELSE SubSeq(text, m, m)

\* group_percent without the literal % after the digits
group_percent_nosign(text, m) ==
    LET ok == {n \in 1..3 : /\ m + n - 1 <= Len(text)
                           /\ \A k \in m..(m + n - 1) : text[k] \in Digits}
    IN  IF ok = {} THEN NoMatch
        ELSE LET n == CHOOSE x \in ok : \A y \in ok : y <= x
             IN  SubSeq(text, m, m + n - 1)

\* the group (\d{1,3}) followed by a literal % tried at position m: the
\* longest of 3, 2, 1 digits after which a % stands
group_percent(text, m) ==
    LET ok == {n \in 1..3 : /\ m + n <= Len(text)
                           /\ \A k \in m..(m + n - 1) : text[k] \in Digits
                           /\ text[m + n] = "%"}
    IN  IF ok = {} THEN NoMatch
        ELSE LET n == CHOOSE x \in ok : \A y \in ok : y <= x
             IN  SubSeq(text, m, m + n - 1)

group_at(shape, text, m) ==
    IF shape = "score" THEN group_score(text, m) ELSE group_percent(text, m)

\* match_at with .* in place of [^0-9]*: any text may stand between the
\* keyword and the number
match_at_anytext(kw, shape, text, i) ==
    IF ~ (i + Len(kw) - 1 <= Len(text)
          /\ str_lower(SubSeq(text, i, i + Len(kw) - 1)) = kw)
    THEN NoMatch
    ELSE LET j == i + Len(kw)
             good == {m \in j..(Len(text) + 1) :
                         group_at(shape, text, m) # NoMatch}
         IN  IF good = {} THEN NoMatch
             ELSE group_at(shape, text,
                           CHOOSE m \in good : \A n \in good : n <= m)

\* the pattern  kw[^0-9]*(group)  tried with its first character at i.
\* [^0-9]* is greedy and backtracks: of the positions it can stop at, the
\* rightmost one where the group matches is taken.
match_at(kw, shape, text, i) ==
    IF ~ (i + Len(kw) - 1 <= Len(text)
          /\ str_lower(SubSeq(text, i, i + Len(kw) - 1)) = kw)
    THEN NoMatch
    ELSE LET j == i + Len(kw)
             stops == {m \in j..(Len(text) + 1) :
                          \A k \in j..(m - 1) : text[k] \notin Digits}
             good == {m \in stops : group_at(shape, text, m) # NoMatch}
         IN  IF good = {} THEN NoMatch
             ELSE group_at(shape, text,
                           CHOOSE m \in good : \A n \in good : n <= m)

\* re_search taking the match with the rightmost start
re_search_last(kw, shape, text) ==
    LET starts == {i \in 1..Len(text) : match_at(kw, shape, text, i) # NoMatch}
    IN  IF starts = {} THEN NoMatch
        ELSE match_at(kw, shape, text,
                      CHOOSE i \in starts : \A k \in starts : k <= i)

\* re.search(pattern, text, re.I).group(1): the match with the leftmost
\* start, NoMatch for None
re_search(kw, shape, text) ==
    LET starts == {i \in 1..Len(text) : match_at(kw, shape, text, i) # NoMatch}
    IN  IF starts = {} THEN NoMatch
        ELSE match_at(kw, shape, text,
                      CHOOSE i \in starts : \A k \in starts : i <= k)

----------------------------------------------------------------------------
(* _extract_metrics                                                        *)

MetricFields == {"productivity_score", "task_completion_rate",
                 "project_progress", "collaboration_score"}

DefaultMetrics ==
    [productivity_score |-> 0, task_completion_rate |-> 0,
     project_progress |-> 0, collaboration_score |-> 0]

NoResult == [none |-> TRUE]

\* the body of the try block, for a str argument
extract_metrics_body(text) ==
    LET prod_match == re_search(kw_productivity, "score", text)
        task_match == re_search(kw_task_completion, "percent", text)
        proj_match == re_search(kw_project_progress, "percent", text)
        collab_match == re_search(kw_collaboration, "score", text)
        m1 == IF prod_match # NoMatch
              THEN [DefaultMetrics EXCEPT !.productivity_score = float_(prod_match)]
              ELSE DefaultMetrics
        m2 == IF task_match # NoMatch
              THEN [m1 EXCEPT !.task_completion_rate = int_(task_match)]
              ELSE m1
        m3 == IF proj_match # NoMatch
              THEN [m2 EXCEPT !.project_progress = int_(proj_match)]
              ELSE m2
        m4 == IF collab_match # NoMatch
              THEN [m3 EXCEPT !.collaboration_score = float_(collab_match)]
              ELSE m3
    IN  m4

\* an exception leaving a block
Raised(e) == [exception |-> e]

IsRaised(r) == DOMAIN r = {"exception"}

\* the try block for any argument: re.search raises TypeError for an
\* argument that is not a str; for a str nothing in the block can raise
\* (float and int are applied to digits the patterns captured)
try_extract_metrics(arg) ==
    IF arg.type = "str" THEN extract_metrics_body(arg.value)
    ELSE Raised("TypeError")

\* _extract_metrics without the except branch
extract_metrics_uncaught(arg) == try_extract_metrics(arg)

\* _extract_metrics(analysis_text): the except branch returns the defaults
extract_metrics(arg) ==
    IF IsRaised(try_extract_metrics(arg)) THEN DefaultMetrics
    ELSE try_extract_metrics(arg)

ExtractMetrics ==
    /\ mpc = "call"
    /\ metrics' = extract_metrics(analysis_text)
    /\ mpc' = "done"
    /\ UNCHANGED <<analysis_text, recVars, otherVars>>

----------------------------------------------------------------------------
(* Inputs of the metric extractor                                          *)

RECURSIVE Flatten(_)
Flatten(ss) == IF ss = <<>> THEN <<>> ELSE Head(ss) \o Flatten(Tail(ss))

\* the building blocks of the input texts: the four keywords (one of them
\* capitalised), digits, separators, and three ready-made number tokens
MetricFragments ==
    { <<"productivity">>, <<"task", " ", "completion">>,
      <<"Project", " ", "Progress">>, <<"collaboration">>,
      <<"2">>, <<"4">>, <<"7">>, <<".">>, <<"%">>, <<" ">>,
      <<"2", "%">>, <<"4", "%">>, <<"7", "7">> }

Str(v) == [type |-> "str", value |-> v]

NoneArg == [type |-> "NoneType", value |-> <<>>]

MetricTexts ==
    {Str(Flatten(fs)) :
        fs \in UNION {[1..n -> MetricFragments] : n \in 0..MaxFrags}}

\* the parts of the state a specification does not use stay as they are here
IdleAnalysis ==
    /\ api_response = [kind |-> "none"]
    /\ apc = "idle"
    /\ hr_result = NoResult

IdleWellness ==
    /\ wv_line = NoneArg
    /\ wv_pc = "idle"
    /\ wv_result = NoResult

IdleRepeat ==
    /\ ncalls = 0
    /\ prev_metrics = NoResult
    /\ prev_rec_result = NoResult

IdleConc ==
    /\ ctext = <<>>
    /\ cpc = <<>>
    /\ csections = <<>>
    /\ cidx = <<>>
    /\ csection = <<>>
    /\ crecs = <<>>
    /\ cresult = <<>>

IdlePerm ==
    /\ profile = NoResult
    /\ wpr_user_id = 0
    /\ perm_pc = "idle"
    /\ perm_result = NoResult

IdleTasks ==
    /\ tasks_arg = NoneArg
    /\ tasks_pc = "idle"
    /\ tasks_result = <<>>

IdleProj ==
    /\ projects_arg = NoneArg
    /\ projects_pc = "idle"
    /\ projects_result = <<>>

IdleTeam ==
    /\ tr_table = <<>>
    /\ tr_args = NoResult
    /\ tr_outcome = NoResult
    /\ tr_pc = "idle"
    /\ tr_result = NoResult
    /\ tr_updates = <<>>

IdleAuth ==
    /\ session = <<>>
    /\ event = NoResult
    /\ a_pc = "idle"
    /\ check_ok = FALSE
    /\ shown = "none"
    /\ auth_calls = <<>>
    /\ logged_out = FALSE

IdleCat ==
    /\ cat_session = <<>>
    /\ cat_page = "idle"
    /\ cat_rerun = FALSE
    /\ cat_event = "none"
    /\ last_save = NoResult

IdleMeta ==
    /\ categories = <<>>
    /\ comp_category = <<>>
    /\ issued = {}
    /\ data_cache = NoResult
    /\ session_cache = <<>>
    /\ editing_category = <<>>
    /\ meta_op = NoResult

IdleApp ==
    /\ IdleProj
    /\ IdleTeam
    /\ IdleAuth
    /\ IdleCat
    /\ IdleMeta

IdleOthers ==
    /\ IdleAnalysis
    /\ IdleWellness
    /\ IdleRepeat
    /\ IdleConc
    /\ IdlePerm
    /\ IdleTasks
    /\ IdleApp

InitRecVars ==
    /\ rpc = "idle"
    /\ sections = <<>>
    /\ idx = 0
    /\ current_section = ""
    /\ recommendations = NoResult
    /\ rec_result = NoResult

IdleExtractor ==
    /\ analysis_text = NoneArg
    /\ mpc = "idle"
    /\ metrics = NoResult
    /\ InitRecVars
    /\ IdleAnalysis
    /\ IdleWellness
    /\ IdleRepeat
    /\ IdleConc
    /\ IdlePerm
    /\ IdleTasks

InitMetrics ==
    /\ analysis_text \in MetricTexts \cup {NoneArg}
    /\ mpc = "call"
    /\ metrics = NoResult
    /\ InitRecVars
    /\ IdleOthers

NextMetrics == ExtractMetrics

SpecMetrics == InitMetrics /\ [][NextMetrics]_vars

----------------------------------------------------------------------------
(* _extract_wellness_value and _extract_recommendations                    *)

NA == <<"N/A">>

\* extract_wellness_value returning the first part
extract_wellness_value_first(line) ==
    LET parts == str_split(str_strip(
                     str_remove(str_remove(str_remove(line, Bullet), ":"), "-")))
    IN  IF parts # <<>> THEN parts[1] ELSE NA

\* parts[-1] if parts else 'N/A'.  No str operation of the try block can
\* raise for a str argument, so the except branch is not reached from the
\* scan.
extract_wellness_value(line) ==
    LET parts == str_split(str_strip(
                     str_remove(str_remove(str_remove(line, Bullet), ":"), "-")))
    IN  IF parts # <<>> THEN parts[Len(parts)] ELSE NA

\* _extract_wellness_value(line) for any argument: line.replace raises
\* AttributeError for an argument that is not a str and the except branch
\* returns 'N/A'
wellness_value_of(arg) ==
    IF arg.type = "str" THEN extract_wellness_value(arg.value) ELSE NA

ExtractWellnessValue ==
    /\ wv_pc = "call"
    /\ wv_result' = wellness_value_of(wv_line)
    /\ wv_pc' = "done"
    /\ UNCHANGED <<analysis_text, metricVars, recVars, wv_line, analysisVars,
                   repeatVars, concVars, permVars, taskVars, appVars>>

DefaultRecommendations ==
    [immediate_actions |-> <<>>,
     growth_recommendations |-> <<>>,
     wellness_indicators |->
        [work_life_balance |-> NA, workload_assessment |-> NA,
         engagement_level |-> NA]]

FallbackActions ==
    << <<"Focus", " ", "on", " ", "task", " ", "prioritization">>,
       <<"Maintain", " ", "regular", " ", "communication", " ", "with", " ", "team">>,
       <<"Document", " ", "progress", " ", "consistently">> >>

is_actions_header(line) ==
    \/ str_startswith(str_lower(line), <<"action", " ", "plan">>)
    \/ str_startswith(str_lower(line), <<"recommendations">>)

is_wellness_header(line) ==
    \/ str_startswith(str_lower(line), <<"wellness">>)
    \/ str_startswith(str_lower(line), <<"well", "-", "being">>)

\* update_wellness with three independent ifs in place of the elif chain
update_wellness_all(wi, line) ==
    LET v == extract_wellness_value(line)
        w1 == IF str_contains(str_lower(line),
                              <<"work", "-", "life", " ", "balance">>)
              THEN [wi EXCEPT !.work_life_balance = v] ELSE wi
        w2 == IF str_contains(str_lower(line), <<"workload">>)
              THEN [w1 EXCEPT !.workload_assessment = v] ELSE w1
        w3 == IF str_contains(str_lower(line), <<"engagement">>)
              THEN [w2 EXCEPT !.engagement_level = v] ELSE w2
    IN  w3

\* the if/elif chain over the three wellness markers
update_wellness(wi, line) ==
    IF str_contains(str_lower(line), <<"work", "-", "life", " ", "balance">>)
    THEN [wi EXCEPT !.work_life_balance = extract_wellness_value(line)]
    ELSE IF str_contains(str_lower(line), <<"workload">>)
    THEN [wi EXCEPT !.workload_assessment = extract_wellness_value(line)]
    ELSE IF str_contains(str_lower(line), <<"engagement">>)
    THEN [wi EXCEPT !.engagement_level = extract_wellness_value(line)]
    ELSE wi

\* process_line accepting a bullet line in every section but 'wellness'
process_line_unsectioned(section, recs, line) ==
    IF section # "wellness" /\ str_startswith(line, <<Bullet>>)
    THEN [recs EXCEPT !.immediate_actions =
              Append(@, str_strip(SubSeq(line, 2, Len(line))))]
    ELSE IF section = "wellness"
    THEN [recs EXCEPT !.wellness_indicators = update_wellness(@, line)]
    ELSE recs

\* process_line inserting each new item in front of the list
process_line_prepend(section, recs, line) ==
    IF section = "actions" /\ str_startswith(line, <<Bullet>>)
    THEN [recs EXCEPT !.immediate_actions =
              <<str_strip(SubSeq(line, 2, Len(line)))>> \o @]
    ELSE IF section = "wellness"
    THEN [recs EXCEPT !.wellness_indicators = update_wellness(@, line)]
    ELSE recs

\* "Process lines based on current section"
process_line(section, recs, line) ==
    IF section = "actions" /\ str_startswith(line, <<Bullet>>)
    THEN [recs EXCEPT !.immediate_actions =
              Append(@, str_strip(SubSeq(line, 2, Len(line))))]
    ELSE IF section = "wellness"
    THEN [recs EXCEPT !.wellness_indicators = update_wellness(@, line)]
    ELSE recs

\* scan_line without the two continue statements: a header line is also
\* handled as content of the section it opens
scan_line_fallthrough(section, recs, raw) ==
    LET line == str_strip(raw)
    IN  IF line = <<>>
        THEN [current_section |-> section, recommendations |-> recs]
        ELSE IF is_actions_header(line)
        THEN [current_section |-> "actions",
              recommendations |-> process_line("actions", recs, line)]
        ELSE IF is_wellness_header(line)
        THEN [current_section |-> "wellness",
              recommendations |-> process_line("wellness", recs, line)]
        ELSE [current_section |-> section,
              recommendations |-> process_line(section, recs, line)]

\* one iteration of the for loop over sections, raw being the element read
scan_line(section, recs, raw) ==
    LET line == str_strip(raw)
    IN  IF line = <<>>
        THEN [current_section |-> section, recommendations |-> recs]
        ELSE IF is_actions_header(line)
        THEN [current_section |-> "actions", recommendations |-> recs]
        ELSE IF is_wellness_header(line)
        THEN [current_section |-> "wellness", recommendations |-> recs]
        ELSE [current_section |-> section,
              recommendations |-> process_line(section, recs, line)]

\* ensure_recommendations without the backfill
ensure_recommendations_never(recs) == recs

\* "Ensure we have at least some recommendations"
ensure_recommendations(recs) ==
    IF recs.immediate_actions = <<>>
    THEN [recs EXCEPT !.immediate_actions = FallbackActions]
    ELSE recs

\* the except branch of _extract_recommendations with the backfill applied
RecommendationsOnError_backfilled ==
    [DefaultRecommendations EXCEPT !.immediate_actions = FallbackActions]

\* what the except branch of _extract_recommendations returns
RecommendationsOnError == DefaultRecommendations

BeginRecommendations_stale_section ==
    /\ rpc = "call"
    /\ IF analysis_text.type = "str"
       THEN /\ recommendations' = DefaultRecommendations
            /\ sections' = str_split_sep(analysis_text.value, "\n")
            /\ idx' = 1
            /\ rpc' = "loop"
            /\ UNCHANGED <<rec_result, current_section>>
       ELSE /\ rec_result' = RecommendationsOnError
            /\ rpc' = "done"
            /\ UNCHANGED <<recommendations, sections, current_section, idx>>
    /\ UNCHANGED <<analysis_text, metricVars, otherVars>>

\* entry of the call: split('\n') raises AttributeError for an argument
\* that is not a str, and the except branch returns the bare defaults
BeginRecommendations ==
    /\ rpc = "call"
    /\ IF analysis_text.type = "str"
       THEN /\ recommendations' = DefaultRecommendations
            /\ sections' = str_split_sep(analysis_text.value, "\n")
            /\ current_section' = ""
            /\ idx' = 1
            /\ rpc' = "loop"
            /\ UNCHANGED rec_result
       ELSE /\ rec_result' = RecommendationsOnError
            /\ rpc' = "done"
            /\ UNCHANGED <<recommendations, sections, current_section, idx>>
    /\ UNCHANGED <<analysis_text, metricVars, otherVars>>

ScanLine ==
    /\ rpc = "loop"
    /\ idx <= Len(sections)
    /\ LET r == scan_line(current_section, recommendations, sections[idx])
       IN  /\ current_section' = r.current_section
           /\ recommendations' = r.recommendations
    /\ idx' = idx + 1
    /\ UNCHANGED <<analysis_text, metricVars, rpc, sections, rec_result,
                   otherVars>>

ReturnRecommendations ==
    /\ rpc = "loop"
    /\ idx > Len(sections)
    /\ rec_result' = ensure_recommendations(recommendations)
    /\ rpc' = "done"
    /\ UNCHANGED <<analysis_text, metricVars, sections, idx, current_section,
                   recommendations, otherVars>>

----------------------------------------------------------------------------
(* Inputs of the recommendation extractor                                  *)

RecLines ==
    { <<" ", "\t">>,
      <<"Action", " ", "Plan">>,
      <<" ", "RECOMMENDATIONS", ":">>,
      <<"Wellness", ":", " ", "engagement", " ", "is", " ", "high">>,
      <<"well", "-", "being", " ", "check">>,
      <<Bullet, " ", "Do", " ", "X">>,
      <<" ", Bullet, "Do", " ", "Y", " ">>,
      <<"Work", "-", "Life", " ", "Balance", ":", " ", "Good">>,
      <<Bullet, " ", "Workload", ":", " ", "Heavy">>,
      <<"Engagement", ":", " ", "High">>,
      <<"engagement", " ", "and", " ", "workload", " ", "good">> }

\* '\n'.join(ls)
RECURSIVE JoinLines(_)
JoinLines(ls) ==
    IF ls = <<>> THEN <<>>
    ELSE IF Len(ls) = 1 THEN ls[1]
    ELSE ls[1] \o <<"\n">> \o JoinLines(Tail(ls))

RecTexts ==
    {Str(JoinLines(ls)) :
        ls \in UNION {[1..n -> RecLines] : n \in 0..MaxLines}}

InitRecommendations ==
    /\ analysis_text \in RecTexts \cup {NoneArg}
    /\ mpc = "idle"
    /\ metrics = NoResult
    /\ rpc = "call"
    /\ sections = <<>>
    /\ idx = 0
    /\ current_section = ""
    /\ recommendations = NoResult
    /\ rec_result = NoResult
    /\ IdleOthers

NextRecommendations ==
    \/ BeginRecommendations
    \/ ScanLine
    \/ ReturnRecommendations

SpecRecommendations == InitRecommendations /\ [][NextRecommendations]_vars

----------------------------------------------------------------------------
(* Reference notions for the properties of _extract_metrics                *)

KwOf(f) ==
    CASE f = "productivity_score" -> kw_productivity
      [] f = "task_completion_rate" -> kw_task_completion
      [] f = "project_progress" -> kw_project_progress
      [] f = "collaboration_score" -> kw_collaboration

ShapeOf(f) ==
    IF f \in {"productivity_score", "collaboration_score"}
    THEN "score" ELSE "percent"

\* the positions where the keyword stands in the text, whatever the case
Occurrences(kw, text) ==
    {i \in 1..(Len(text) - Len(kw) + 1) :
        str_lower(SubSeq(text, i, i + Len(kw) - 1)) = kw}

\* the position of the first digit at or after j, 0 when there is none
FirstDigitFrom(text, j) ==
    LET ds == {m \in j..Len(text) : text[m] \in Digits}
    IN  IF ds = {} THEN 0 ELSE CHOOSE m \in ds : \A n \in ds : m <= n

\* the number of consecutive digits that start at m
DigitRun(text, m) ==
    Cardinality({n \in 1..(Len(text) - m + 1) :
                    \A k \in m..(m + n - 1) : text[k] \in Digits})

\* the keyword pattern of field f matches somewhere in the text: a keyword
\* occurrence, then no digit up to a number of the field's shape
PatternFound(f, text) ==
    \E i \in Occurrences(KwOf(f), text) :
        LET m == FirstDigitFrom(text, i + Len(KwOf(f)))
        IN  /\ m # 0
            /\ IF ShapeOf(f) = "score"
               THEN text[m] \in {"0", "1", "2", "3", "4"}
               ELSE /\ DigitRun(text, m) \in 1..3
                    /\ m + DigitRun(text, m) <= Len(text)
                    /\ text[m + DigitRun(text, m)] = "%"

\* the occurrence at i is followed by a number that as a whole has the
\* accepted shape: d or d.d with d in 0..4 and no further digit for a score,
\* one to three digits and a % for a percentage
AcceptedAt(f, text, i) ==
    LET m == FirstDigitFrom(text, i + Len(KwOf(f)))
        n == DigitRun(text, m)
    IN  /\ m # 0
        /\ IF ShapeOf(f) = "score"
           THEN /\ n = 1
                /\ text[m] \in {"0", "1", "2", "3", "4"}
                /\ (m + 2 <= Len(text) /\ text[m + 1] = ".")
                       => DigitRun(text, m + 2) <= 1
           ELSE /\ n \in 1..3
                /\ m + n <= Len(text)
                /\ text[m + n] = "%"

\* the value of the accepted number that follows the occurrence at i
ValueAt(f, text, i) ==
    LET m == FirstDigitFrom(text, i + Len(KwOf(f)))
    IN  IF ShapeOf(f) = "score"
        THEN IF m + 2 <= Len(text) /\ text[m + 1] = "." /\ text[m + 2] \in Digits
             THEN 10 * DigitVal(text[m]) + DigitVal(text[m + 2])
             ELSE 10 * DigitVal(text[m])
        ELSE int_(SubSeq(text, m, m + DigitRun(text, m) - 1))

MinOf(S) == CHOOSE x \in S : \A y \in S : x <= y
MaxOf(S) == CHOOSE x \in S : \A y \in S : y <= x

\* the number that follows the only occurrence of "productivity" is outside
\* the 0-4 scale: its integer part exceeds 4, or is 4 with a non-zero decimal
ProductivityNumberOutOfScale(text) ==
    /\ Cardinality(Occurrences(kw_productivity, text)) = 1
    /\ LET i == MinOf(Occurrences(kw_productivity, text))
           m == FirstDigitFrom(text, i + Len(kw_productivity))
           n == DigitRun(text, m)
           ip == int_(SubSeq(text, m, m + n - 1))
       IN  /\ m # 0
           /\ \/ ip > 4
              \/ /\ ip = 4
                 /\ m + n + 1 <= Len(text)
                 /\ text[m + n] = "."
                 /\ text[m + n + 1] \in Digits \ {"0"}

----------------------------------------------------------------------------
(* Properties of _extract_metrics (specification SpecMetrics)              *)

\* C1: the returned record has exactly the four metric fields; a field whose
\* keyword pattern is not found in the text holds its default 0, and a text
\* without any of the four keywords gives the all-defaults record.
C1_DefaultOnAbsence ==
    mpc = "done" =>
        /\ DOMAIN metrics = MetricFields
        /\ \A f \in MetricFields :
              ~ PatternFound(f, analysis_text.value) => metrics[f] = 0
        /\ (\A f \in MetricFields :
               Occurrences(KwOf(f), analysis_text.value) = {})
              => metrics = DefaultMetrics

\* a keyword is present without its number, another field is extracted
C1_Witness ==
    /\ mpc = "done"
    /\ Occurrences(kw_task_completion, analysis_text.value) # {}
    /\ ~ PatternFound("task_completion_rate", analysis_text.value)
    /\ metrics.task_completion_rate = 0
    /\ metrics.productivity_score # 0

\* C7: when a keyword occurs several times, each time followed by a number
\* of the accepted shape, the field holds the number of the earliest
\* occurrence.
C7_FirstMatchWins ==
    mpc = "done" =>
        \A f \in MetricFields :
            LET occ == Occurrences(KwOf(f), analysis_text.value)
            IN  (/\ Cardinality(occ) >= 2
                 /\ \A i \in occ : AcceptedAt(f, analysis_text.value, i))
                => metrics[f] = ValueAt(f, analysis_text.value, MinOf(occ))

\* two occurrences with different accepted numbers, the larger one last
C7_Witness ==
    /\ mpc = "done"
    /\ \E f \in {"task_completion_rate", "collaboration_score"} :
          LET occ == Occurrences(KwOf(f), analysis_text.value)
          IN  /\ Cardinality(occ) = 2
              /\ \A i \in occ : AcceptedAt(f, analysis_text.value, i)
              /\ ValueAt(f, analysis_text.value, MinOf(occ))
                    < ValueAt(f, analysis_text.value, MaxOf(occ))
              /\ metrics[f] = ValueAt(f, analysis_text.value, MinOf(occ))

\* C8: when the number that follows the keyword "productivity" lies outside
\* the 0-4 scale, productivity_score is the default 0.
C8_OutOfScaleRejected ==
    (mpc = "done" /\ ProductivityNumberOutOfScale(analysis_text.value))
        => metrics.productivity_score = 0

\* C9: productivity_score and collaboration_score lie in [0.0, 4.0]
\* (0..40 in tenths).
C9_ScoreDomain ==
    mpc = "done" =>
        /\ metrics.productivity_score \in 0..40
        /\ metrics.collaboration_score \in 0..40

\* C10: task_completion_rate and project_progress are integers in [0, 100].
C10_PercentDomain ==
    mpc = "done" =>
        /\ metrics.task_completion_rate \in 0..100
        /\ metrics.project_progress \in 0..100

----------------------------------------------------------------------------
(* Reference notions for the properties of _extract_recommendations        *)

\* the i-th line as the loop sees it
Ln(i) == str_strip(sections[i])

\* the section a line opens: "" for a blank line or a line that is no header
HeaderKind(line) ==
    IF line = <<>> THEN ""
    ELSE IF is_actions_header(line) THEN "actions"
    ELSE IF is_wellness_header(line) THEN "wellness"
    ELSE ""

HeadersBefore(i) == {h \in 1..(i - 1) : HeaderKind(Ln(h)) # ""}

\* the section in force when line i is read: that of the last header above
SectionAt(i) ==
    IF HeadersBefore(i) = {} THEN ""
    ELSE HeaderKind(Ln(MaxOf(HeadersBefore(i))))

IsBulletLine(i) == Ln(i) # <<>> /\ Ln(i)[1] = Bullet

\* line i is read as an action item
IsCaptured(i) == IsBulletLine(i) /\ SectionAt(i) = "actions"

\* the lines among the first n that are read as action items
CapturedLines(n) == {i \in 1..n : IsCaptured(i)}

\* their texts, glyph removed and trimmed, in order of appearance
RECURSIVE CapturedItems(_)
CapturedItems(n) ==
    IF n = 0 THEN <<>>
    ELSE CapturedItems(n - 1) \o
         (IF IsCaptured(n) THEN <<str_strip(Tail(Ln(n)))>> ELSE <<>>)

\* the indicator a wellness line is about: the first marker it contains in
\* the order work-life balance, workload, engagement; "" when it has none
MarkerField(line) ==
    IF str_contains(str_lower(line), <<"work", "-", "life", " ", "balance">>)
    THEN "work_life_balance"
    ELSE IF str_contains(str_lower(line), <<"workload">>)
    THEN "workload_assessment"
    ELSE IF str_contains(str_lower(line), <<"engagement">>)
    THEN "engagement_level"
    ELSE ""

HasMarker(line) ==
    \/ str_contains(str_lower(line), <<"work", "-", "life", " ", "balance">>)
    \/ str_contains(str_lower(line), <<"workload">>)
    \/ str_contains(str_lower(line), <<"engagement">>)

WellnessFields == {"work_life_balance", "workload_assessment", "engagement_level"}

\* the loop is about to read a line
Reading == rpc = "loop" /\ idx <= Len(sections)

----------------------------------------------------------------------------
(* Properties of _extract_recommendations (SpecRecommendations)            *)

\* C2: for a text input the returned immediate_actions is never empty; it is
\* the fallback triple exactly when the scan captured no bullet line, and
\* the captured items otherwise.
C2_ActionsNeverEmpty ==
    (rpc = "done" /\ analysis_text.type = "str") =>
        LET captured == CapturedItems(Len(sections))
        IN  /\ rec_result.immediate_actions # <<>>
            /\ (rec_result.immediate_actions = FallbackActions)
                  <=> (CapturedLines(Len(sections)) = {})
            /\ captured # <<>> => rec_result.immediate_actions = captured

\* an actions section without any bullet line gives the fallback triple
C2_Witness ==
    /\ rpc = "done"
    /\ analysis_text.type = "str"
    /\ \E i \in 1..Len(sections) : SectionAt(i) = "actions" /\ Ln(i) # <<>>
    /\ CapturedLines(Len(sections)) = {}
    /\ rec_result.immediate_actions = FallbackActions

\* C3: the scan starts in section '' and stays there until the first header;
\* in that section nothing is recorded: no action item, and the three
\* indicators keep "N/A".
C3_NoneIgnoresLines ==
    rpc = "loop" =>
        /\ idx = 1 => current_section = ""
        /\ (current_section = "") <=> (HeadersBefore(idx) = {})
        /\ current_section = "" => recommendations = DefaultRecommendations

\* a bullet line and a wellness-marker line were read before any header
C3_Witness ==
    /\ rpc = "loop"
    /\ current_section = ""
    /\ \E i, k \in 1..(idx - 1) :
          /\ IsBulletLine(i)
          /\ Ln(k) # <<>> /\ Ln(k)[1] # Bullet /\ HasMarker(Ln(k))
    /\ recommendations.immediate_actions = <<>>

\* C4: in every section a line starting with "action plan" or
\* "recommendations" sets the section to 'actions', one starting with
\* "wellness" or "well-being" sets it to 'wellness', and the header line
\* itself records nothing.
C4_HeaderTransitions ==
    [][ Reading =>
          LET line == Ln(idx)
              low == str_lower(line)
          IN  /\ (\/ str_startswith(low, <<"action", " ", "plan">>)
                  \/ str_startswith(low, <<"recommendations">>))
                 => /\ current_section' = "actions"
                    /\ recommendations' = recommendations
              /\ (\/ str_startswith(low, <<"wellness">>)
                  \/ str_startswith(low, <<"well", "-", "being">>))
                 => /\ current_section' = "wellness"
                    /\ recommendations' = recommendations ]_vars

\* a wellness header carrying a marker was read in section 'actions' and
\* left the indicators alone
C4_Witness ==
    /\ rpc = "loop"
    /\ idx >= 3
    /\ SectionAt(idx - 1) = "actions"
    /\ HeaderKind(Ln(idx - 1)) = "wellness"
    /\ HasMarker(Ln(idx - 1))
    /\ current_section = "wellness"
    /\ recommendations.wellness_indicators =
          DefaultRecommendations.wellness_indicators

\* C5: immediate_actions is at every point of the scan the sequence of the
\* bullet lines read so far in section 'actions', in order of appearance,
\* glyph removed and trimmed, and it is what is returned when it is not
\* empty; a line read in section 'actions' that is neither a bullet line nor
\* a section header changes neither the section nor the record.
C5_ActionsInOrder ==
    /\ [](rpc = "loop" =>
            recommendations.immediate_actions = CapturedItems(idx - 1))
    /\ []((rpc = "done" /\ analysis_text.type = "str"
              /\ CapturedItems(Len(sections)) # <<>>)
            => rec_result.immediate_actions = CapturedItems(Len(sections)))
    /\ [][ (Reading /\ current_section = "actions"
              /\ ~ IsBulletLine(idx) /\ HeaderKind(Ln(idx)) = "")
            => /\ current_section' = "actions"
               /\ recommendations' = recommendations ]_vars

\* two bullet lines with a non-bullet line between them were captured
C5_Witness ==
    /\ rpc = "done"
    /\ Len(rec_result.immediate_actions) = 2
    /\ rec_result.immediate_actions[1] # rec_result.immediate_actions[2]
    /\ rec_result.immediate_actions = CapturedItems(Len(sections))
    /\ \E i \in 1..Len(sections) :
          /\ SectionAt(i) = "actions"
          /\ Ln(i) # <<>> /\ ~ IsBulletLine(i) /\ HeaderKind(Ln(i)) = ""
          /\ CapturedLines(Len(sections)) \cap (i + 1)..Len(sections) # {}

\* C6: a line read in section 'wellness' changes at most one indicator, the
\* one of the first marker it contains in the order work-life balance,
\* workload, engagement, and none when it contains no marker; no indicator
\* changes while the section is '' or 'actions'.
C6_OneIndicatorPerLine ==
    [][ Reading =>
          LET wi == recommendations.wellness_indicators
              wj == recommendations'.wellness_indicators
              changed == {f \in WellnessFields : wj[f] # wi[f]}
          IN  /\ DOMAIN wj = WellnessFields
              /\ Cardinality(changed) <= 1
              /\ current_section # "wellness" => changed = {}
              /\ (current_section = "wellness" /\ Ln(idx) # <<>>
                     /\ HeaderKind(Ln(idx)) = "")
                 => /\ changed \subseteq {MarkerField(Ln(idx))}
                    /\ MarkerField(Ln(idx)) # ""
                          => wj[MarkerField(Ln(idx))] # NA ]_vars

\* a line with two markers was read in section 'wellness': workload took the
\* value, engagement kept "N/A"
C6_Witness ==
    /\ rpc = "loop"
    /\ idx >= 3
    /\ SectionAt(idx - 1) = "wellness"
    /\ HeaderKind(Ln(idx - 1)) = ""
    /\ str_contains(str_lower(Ln(idx - 1)), <<"workload">>)
    /\ str_contains(str_lower(Ln(idx - 1)), <<"engagement">>)
    /\ recommendations.wellness_indicators.workload_assessment # NA
    /\ recommendations.wellness_indicators.engagement_level = NA

----------------------------------------------------------------------------
(* Further properties of _extract_metrics (SpecMetrics)                    *)

\* the numbers of one to three digits immediately followed by a % that
\* start at or after j (the decimals of a number such as 4.4 set aside)
PercentNumbersFrom(text, j) ==
    {m \in j..Len(text) :
        /\ text[m] \in Digits
        /\ (m > 1 => text[m - 1] \notin Digits \cup {"."})
        /\ DigitRun(text, m) \in 1..3
        /\ m + DigitRun(text, m) <= Len(text)
        /\ text[m + DigitRun(text, m)] = "%"}

\* C11 as stated: task_completion_rate is the first number of one to three
\* digits immediately followed by a % that appears after the keyword,
\* whatever text stands between the two.
C11_AnySeparator ==
    (mpc = "done" /\ analysis_text.type = "str") =>
        LET text == analysis_text.value
            occ == Occurrences(kw_task_completion, text)
        IN  (occ # {}
             /\ PercentNumbersFrom(text, MinOf(occ) + Len(kw_task_completion)) # {})
            => metrics.task_completion_rate =
                  LET m == MinOf(PercentNumbersFrom(
                               text, MinOf(occ) + Len(kw_task_completion)))
                  IN  int_(SubSeq(text, m, m + DigitRun(text, m) - 1))

\* C11 (amended): task_completion_rate is the number of one to three digits
\* immediately followed by a % that follows the earliest occurrence of the
\* keyword which has only digit-free text between it and such a number; it
\* is 0 when no occurrence is followed that way.  The first digit after the
\* keyword decides: a number without a % there is not skipped.
C11_TaskCompletionRate ==
    (mpc = "done" /\ analysis_text.type = "str") =>
        LET text == analysis_text.value
            acc == {i \in Occurrences(kw_task_completion, text) :
                       AcceptedAt("task_completion_rate", text, i)}
        IN  IF acc = {}
            THEN metrics.task_completion_rate = 0
            ELSE metrics.task_completion_rate =
                     ValueAt("task_completion_rate", text, MinOf(acc))

\* the first occurrence is followed by a number without %, a later one by a
\* percentage, which is taken
C11_Witness ==
    /\ mpc = "done"
    /\ analysis_text.type = "str"
    /\ LET text == analysis_text.value
           occ == Occurrences(kw_task_completion, text)
           acc == {i \in occ : AcceptedAt("task_completion_rate", text, i)}
       IN  /\ acc # {}
           /\ MinOf(occ) \notin acc
           /\ FirstDigitFrom(text, MinOf(occ) + Len(kw_task_completion)) # 0
           /\ metrics.task_completion_rate # 0

\* C12: _extract_metrics returns a record for every argument and never lets
\* an exception out; for an argument that is not a str (the pattern search
\* raises) the record is the all-defaults one.
C12_MetricsNeverRaise ==
    mpc = "done" =>
        /\ ~ IsRaised(metrics)
        /\ MetricFields \subseteq DOMAIN metrics
        /\ IsRaised(try_extract_metrics(analysis_text))
              => \A f \in MetricFields : metrics[f] = 0

\* the call was made with an argument that is not a str
C12_Witness ==
    /\ mpc = "done"
    /\ analysis_text.type # "str"
    /\ IsRaised(try_extract_metrics(analysis_text))
    /\ metrics = DefaultMetrics

----------------------------------------------------------------------------
(* Further properties of _extract_recommendations (SpecRecommendations)    *)

\* C13: when the scan raises (the argument is not a str), the call returns
\* the default record: immediate_actions empty, growth_recommendations
\* empty, the three indicators "N/A"; the fallback triple is not applied.
C13_ErrorGivesBareDefaults ==
    (rpc = "done" /\ analysis_text.type # "str") =>
        /\ rec_result.immediate_actions = <<>>
        /\ rec_result.growth_recommendations = <<>>
        /\ \A f \in WellnessFields : rec_result.wellness_indicators[f] = NA
        /\ rec_result.immediate_actions # FallbackActions

C13_Witness ==
    /\ rpc = "done"
    /\ analysis_text.type # "str"
    /\ rec_result.immediate_actions = <<>>

----------------------------------------------------------------------------
(* Direct calls of _extract_wellness_value (SpecWellness)                  *)

WellnessTokens == {Bullet, ":", "-", " ", "Good", "Work"}

WellnessLines ==
    {Str(l) : l \in UNION {[1..n -> WellnessTokens] : n \in 0..MaxTokens}}

InitWellness ==
    /\ wv_line \in WellnessLines \cup {NoneArg}
    /\ wv_pc = "call"
    /\ wv_result = NoResult
    /\ analysis_text = NoneArg
    /\ mpc = "idle"
    /\ metrics = NoResult
    /\ InitRecVars
    /\ IdleAnalysis
    /\ IdleRepeat
    /\ IdleConc
    /\ IdlePerm
    /\ IdleTasks
    /\ IdleApp

NextWellness == ExtractWellnessValue

SpecWellness == InitWellness /\ [][NextWellness]_vars

\* C16: the value is the last whitespace-free run of what is left of the
\* line once every bullet glyph, colon and hyphen is taken out; it is "N/A"
\* when nothing but whitespace is left and when the call raises (the
\* argument is not a str).
C16_LastToken ==
    wv_pc = "done" =>
        IF wv_line.type # "str" THEN wv_result = NA
        ELSE LET c == SelectSeq(wv_line.value,
                                LAMBDA x : x \notin {Bullet, ":", "-"})
                 solid == {i \in 1..Len(c) : c[i] \notin Whitespace}
             IN  IF solid = {} THEN wv_result = NA
                 ELSE LET hi == MaxOf(solid)
                          lo == MinOf({i \in 1..hi :
                                     \A k \in i..hi : c[k] \notin Whitespace})
                      IN  wv_result = SubSeq(c, lo, hi)

\* a line with a hyphen and two words: the last word is returned
C16_Witness ==
    /\ wv_pc = "done"
    /\ wv_line.type = "str"
    /\ \E i, j, k \in 1..Len(wv_line.value) :
          /\ i < j /\ j < k
          /\ wv_line.value[i] = "Work"
          /\ wv_line.value[j] = " "
          /\ wv_line.value[k] = "Good"
    /\ \E i \in 1..Len(wv_line.value) : wv_line.value[i] \in {Bullet, ":", "-"}
    /\ wv_result = <<"Good">>

----------------------------------------------------------------------------
(* generate_hr_analysis (SpecAnalysis)                                     *)

\* the for loop of _extract_recommendations from element i on
RECURSIVE scan_from(_, _, _, _)
scan_from(secs, i, section, recs) ==
    IF i > Len(secs) THEN recs
    ELSE LET r == scan_line(section, recs, secs[i])
         IN  scan_from(secs, i + 1, r.current_section, r.recommendations)

\* _extract_recommendations(analysis_text) as one call
extract_recommendations(arg) ==
    IF arg.type = "str"
    THEN ensure_recommendations(
             scan_from(str_split_sep(arg.value, "\n"), 1, "",
                       DefaultRecommendations))
    ELSE RecommendationsOnError

\* the fields of data the result passes through
SubmissionData ==
    [report_id |-> "r1", team_member_id |-> "u1", week_number |-> 1,
     year |-> 2024]

\* metrics: {} and recommendations: [] of the except branch
EmptyDict == [f \in {} |-> 0]
EmptyList == <<>>

\* the record the try block returns for the text of the response
hr_analysis_ok(text) ==
    [report_id |-> SubmissionData.report_id,
     team_member_id |-> SubmissionData.team_member_id,
     week_number |-> SubmissionData.week_number,
     year |-> SubmissionData.year,
     analysis_text |-> Str(text),
     metrics |-> extract_metrics(Str(text)),
     recommendations |-> extract_recommendations(Str(text))]

\* the record the except branch returns
hr_analysis_failed(e) ==
    [report_id |-> SubmissionData.report_id,
     team_member_id |-> SubmissionData.team_member_id,
     week_number |-> SubmissionData.week_number,
     year |-> SubmissionData.year,
     analysis_text |-> Str(<<"Error generating analysis: ", e>>),
     metrics |-> EmptyDict,
     recommendations |-> EmptyList]

\* generate_hr_analysis(data): the request raises, or the response has no
\* content (ValueError), or its first block carries the text
generate_hr_analysis(resp) ==
    IF resp.kind = "raises" THEN hr_analysis_failed("APIError")
    ELSE IF resp.kind = "empty" THEN hr_analysis_failed("Empty response from AI")
    ELSE hr_analysis_ok(resp.text)

GenerateHRAnalysis ==
    /\ apc = "call"
    /\ hr_result' = generate_hr_analysis(api_response)
    /\ apc' = "done"
    /\ UNCHANGED <<analysis_text, metricVars, recVars, api_response,
                   wellnessVars, repeatVars, concVars, permVars, taskVars, appVars>>

\* the lines the responses are made of
AnalysisLines ==
    { <<"productivity", " ", "4">>,
      <<"task", " ", "completion", " ", "2", "%">>,
      <<"Action", " ", "Plan">>,
      <<Bullet, " ", "Do", " ", "Y">>,
      <<"Wellness">>,
      <<"Engagement", ":", " ", "High">> }

AnalysisTexts ==
    {JoinLines(ls) :
        ls \in UNION {[1..n -> AnalysisLines] : n \in 0..MaxLines}}

ApiResponses ==
    {[kind |-> "raises"], [kind |-> "empty"]} \cup
    {[kind |-> "text", text |-> t] : t \in AnalysisTexts}

InitAnalysis ==
    /\ api_response \in ApiResponses
    /\ apc = "call"
    /\ hr_result = NoResult
    /\ analysis_text = NoneArg
    /\ mpc = "idle"
    /\ metrics = NoResult
    /\ InitRecVars
    /\ IdleWellness
    /\ IdleRepeat
    /\ IdleConc
    /\ IdlePerm
    /\ IdleTasks
    /\ IdleApp

NextAnalysis == GenerateHRAnalysis

SpecAnalysis == InitAnalysis /\ [][NextAnalysis]_vars

RecommendationFields ==
    {"immediate_actions", "growth_recommendations", "wellness_indicators"}

\* C14: whenever the analysis fails, the result shows the metrics at their
\* defaults and the fallback triple as recommendations.
C14_FailureLooksLikeSilence ==
    (apc = "done" /\ api_response.kind # "text") =>
        /\ \A f \in MetricFields :
              f \in DOMAIN hr_result.metrics /\ hr_result.metrics[f] = 0
        /\ "immediate_actions" \in DOMAIN hr_result.recommendations
        /\ hr_result.recommendations.immediate_actions = FallbackActions

\* C15: every result record carries the analysis text, a metrics record
\* with the four metric fields and a recommendations record with its three
\* fields, on the failure path too.
C15_ResultShape ==
    apc = "done" =>
        /\ "analysis_text" \in DOMAIN hr_result
        /\ DOMAIN hr_result.metrics = MetricFields
        /\ DOMAIN hr_result.recommendations = RecommendationFields

----------------------------------------------------------------------------
(* The extractor called again on the same text (SpecRepeat)                *)

MaxCalls == 2

\* a further call of _extract_metrics and _extract_recommendations with the
\* same argument: the locals of the finished call are whatever it left
CallAgain ==
    /\ mpc = "done"
    /\ rpc = "done"
    /\ ncalls < MaxCalls
    /\ ncalls' = ncalls + 1
    /\ prev_metrics' = metrics
    /\ prev_rec_result' = rec_result
    /\ mpc' = "call"
    /\ rpc' = "call"
    /\ UNCHANGED <<analysis_text, metrics, sections, idx, current_section,
                   recommendations, rec_result, analysisVars, wellnessVars,
                   concVars, permVars, taskVars, appVars>>

InitRepeat ==
    /\ analysis_text \in {Str(t) : t \in AnalysisTexts} \cup {NoneArg}
    /\ mpc = "call"
    /\ metrics = NoResult
    /\ rpc = "call"
    /\ sections = <<>>
    /\ idx = 0
    /\ current_section = ""
    /\ recommendations = NoResult
    /\ rec_result = NoResult
    /\ ncalls = 1
    /\ prev_metrics = NoResult
    /\ prev_rec_result = NoResult
    /\ IdleAnalysis
    /\ IdleWellness
    /\ IdleConc
    /\ IdlePerm
    /\ IdleTasks
    /\ IdleApp

NextRepeat ==
    \/ ExtractMetrics
    \/ BeginRecommendations
    \/ ScanLine
    \/ ReturnRecommendations
    \/ CallAgain

SpecRepeat == InitRepeat /\ [][NextRepeat]_vars

\* C17: a later call on the same text returns the same metrics and the same
\* recommendations as the call before it.
C17_SameInputSameOutput ==
    ncalls > 1 =>
        /\ mpc = "done" => metrics = prev_metrics
        /\ rpc = "done" => rec_result = prev_rec_result

\* the second call has returned for a text whose first call ended inside a
\* section with an action captured and a score read
C17_Witness ==
    /\ ncalls = 2
    /\ mpc = "done"
    /\ rpc = "done"
    /\ analysis_text.type = "str"
    /\ current_section # ""
    /\ rec_result.immediate_actions # FallbackActions
    /\ metrics.productivity_score # 0

----------------------------------------------------------------------------
(* Two calls of _extract_recommendations in flight (SpecConcurrent)        *)

MaxConcLines == 2

Callers == {1, 2}

\* entry of caller c's call: its own recommendations, sections and
\* current_section are bound
ConcBegin(c) ==
    /\ cpc[c] = "call"
    /\ IF ctext[c].type = "str"
       THEN /\ crecs' = [crecs EXCEPT ![c] = DefaultRecommendations]
            /\ csections' =
                   [csections EXCEPT ![c] = str_split_sep(ctext[c].value, "\n")]
            /\ csection' = [csection EXCEPT ![c] = ""]
            /\ cidx' = [cidx EXCEPT ![c] = 1]
            /\ cpc' = [cpc EXCEPT ![c] = "loop"]
            /\ UNCHANGED cresult
       ELSE /\ cresult' = [cresult EXCEPT ![c] = RecommendationsOnError]
            /\ cpc' = [cpc EXCEPT ![c] = "done"]
            /\ UNCHANGED <<crecs, csections, csection, cidx>>
    /\ UNCHANGED <<analysis_text, metricVars, recVars, ctext, analysisVars,
                   wellnessVars, repeatVars, permVars, taskVars, appVars>>

ConcScanLine_shared(c) ==
    /\ cpc[c] = "loop"
    /\ cidx[c] <= Len(csections[c])
    /\ LET r == scan_line(csection[1], crecs[c], csections[c][cidx[c]])
       IN  /\ csection' = [csection EXCEPT ![1] = r.current_section]
           /\ crecs' = [crecs EXCEPT ![c] = r.recommendations]
    /\ cidx' = [cidx EXCEPT ![c] = @ + 1]
    /\ UNCHANGED <<analysis_text, metricVars, recVars, ctext, cpc, csections,
                   cresult, analysisVars, wellnessVars, repeatVars, permVars,
                   taskVars, appVars>>

\* one iteration of caller c's loop
ConcScanLine(c) ==
    /\ cpc[c] = "loop"
    /\ cidx[c] <= Len(csections[c])
    /\ LET r == scan_line(csection[c], crecs[c], csections[c][cidx[c]])
       IN  /\ csection' = [csection EXCEPT ![c] = r.current_section]
           /\ crecs' = [crecs EXCEPT ![c] = r.recommendations]
    /\ cidx' = [cidx EXCEPT ![c] = @ + 1]
    /\ UNCHANGED <<analysis_text, metricVars, recVars, ctext, cpc, csections,
                   cresult, analysisVars, wellnessVars, repeatVars, permVars,
                   taskVars, appVars>>

\* caller c's loop is over: the fallback check and the return
ConcReturn(c) ==
    /\ cpc[c] = "loop"
    /\ cidx[c] > Len(csections[c])
    /\ cresult' = [cresult EXCEPT ![c] = ensure_recommendations(crecs[c])]
    /\ cpc' = [cpc EXCEPT ![c] = "done"]
    /\ UNCHANGED <<analysis_text, metricVars, recVars, ctext, csections, cidx,
                   csection, crecs, analysisVars, wellnessVars, repeatVars,
                   permVars, taskVars, appVars>>

ConcLines ==
    { <<"Action", " ", "Plan">>,
      <<Bullet, " ", "Do", " ", "Y">>,
      <<"Wellness">>,
      <<"Engagement", ":", " ", "High">> }

ConcTexts ==
    {Str(JoinLines(ls)) :
        ls \in UNION {[1..n -> ConcLines] : n \in 0..MaxConcLines}}

InitConcurrent ==
    /\ ctext \in [Callers -> ConcTexts \cup {NoneArg}]
    /\ cpc = [c \in Callers |-> "call"]
    /\ csections = [c \in Callers |-> <<>>]
    /\ cidx = [c \in Callers |-> 0]
    /\ csection = [c \in Callers |-> ""]
    /\ crecs = [c \in Callers |-> NoResult]
    /\ cresult = [c \in Callers |-> NoResult]
    /\ analysis_text = NoneArg
    /\ mpc = "idle"
    /\ metrics = NoResult
    /\ InitRecVars
    /\ IdleAnalysis
    /\ IdleWellness
    /\ IdleRepeat
    /\ IdlePerm
    /\ IdleTasks
    /\ IdleApp

NextConcurrent ==
    \E c \in Callers :
        \/ ConcBegin(c)
        \/ ConcScanLine(c)
        \/ ConcReturn(c)

SpecConcurrent == InitConcurrent /\ [][NextConcurrent]_vars

\* C18: whatever the interleaving of the two calls' steps, each call returns
\* what the extractor returns for its text when run alone.
C18_SameAsAlone ==
    \A c \in Callers :
        cpc[c] = "done" => cresult[c] = extract_recommendations(ctext[c])

\* both calls have returned, on different texts: one captured an action
\* under a header, the other saw a bullet under no header
C18_Witness ==
    /\ cpc[1] = "done"
    /\ cpc[2] = "done"
    /\ ctext[1] # ctext[2]
    /\ cresult[1].immediate_actions = << <<"Do", " ", "Y">> >>
    /\ ctext[2] = Str(<<Bullet, " ", "Do", " ", "Y", "\n", "Wellness">>)
    /\ cresult[2].immediate_actions = FallbackActions

----------------------------------------------------------------------------
(* UserProfile.can_view_wpr and can_edit_wpr (SpecPermissions)             *)

MaxUsers == 3

Users == 1..MaxUsers

UserRole == {"employee", "manager", "admin"}

TeamRole == {"member", "lead"}

can_view_wpr_any_lead(self, target) ==
    \/ self.role \in {"admin", "manager"}
    \/ target = self.user_id
    \/ self.team_role = "lead"

\* direct_reports is read by membership only and is kept as a set
can_view_wpr(self, target) ==
    \/ self.role \in {"admin", "manager"}
    \/ target = self.user_id
    \/ (self.team_role = "lead" /\ target \in self.direct_reports)

can_edit_wpr(self, target) == target = self.user_id

CheckPermissions ==
    /\ perm_pc = "call"
    /\ perm_result' = [view |-> can_view_wpr(profile, wpr_user_id),
                       edit |-> can_edit_wpr(profile, wpr_user_id)]
    /\ perm_pc' = "done"
    /\ UNCHANGED <<analysis_text, metricVars, recVars, profile, wpr_user_id,
                   analysisVars, wellnessVars, repeatVars, concVars, taskVars, appVars>>

\* the role of a profile is assigned anew and the checks are asked again
SetRole ==
    /\ perm_pc = "done"
    /\ \E r \in UserRole \ {profile.role} :
           profile' = [profile EXCEPT !.role = r]
    /\ perm_pc' = "call"
    /\ UNCHANGED <<analysis_text, metricVars, recVars, wpr_user_id, perm_result,
                   analysisVars, wellnessVars, repeatVars, concVars, taskVars, appVars>>

UserProfiles ==
    [user_id : Users, role : UserRole, team_role : TeamRole,
     direct_reports : SUBSET Users]

InitPermissions ==
    /\ profile \in UserProfiles
    /\ wpr_user_id \in Users
    /\ perm_pc = "call"
    /\ perm_result = NoResult
    /\ analysis_text = NoneArg
    /\ mpc = "idle"
    /\ metrics = NoResult
    /\ InitRecVars
    /\ IdleAnalysis
    /\ IdleWellness
    /\ IdleRepeat
    /\ IdleConc
    /\ IdleTasks
    /\ IdleApp

NextPermissions ==
    \/ CheckPermissions
    \/ SetRole

SpecPermissions == InitPermissions /\ [][NextPermissions]_vars

\* C19: editing is allowed exactly for the profile's own WPR; viewing
\* another user's WPR is allowed only to a manager or admin, or to a team
\* lead with that user among the direct reports; an employee who is a plain
\* team member can neither view nor edit another user's WPR.
C19_Permissions ==
    perm_pc = "done" =>
        /\ perm_result.edit <=> (wpr_user_id = profile.user_id)
        /\ (perm_result.view /\ wpr_user_id # profile.user_id) =>
              \/ profile.role \in {"manager", "admin"}
              \/ /\ profile.team_role = "lead"
                 /\ wpr_user_id \in profile.direct_reports
        /\ ( /\ profile.role = "employee"
             /\ profile.team_role = "member"
             /\ wpr_user_id # profile.user_id ) =>
              (~perm_result.view /\ ~perm_result.edit)

\* an employee who leads a team is refused the WPR of a user outside the
\* direct reports
C19_Witness ==
    /\ perm_pc = "done"
    /\ profile.role = "employee"
    /\ profile.team_role = "lead"
    /\ profile.direct_reports # {}
    /\ wpr_user_id # profile.user_id
    /\ wpr_user_id \notin profile.direct_reports
    /\ ~perm_result.view
    /\ ~perm_result.edit

----------------------------------------------------------------------------
(* InputValidator.validate_tasks (SpecTasks)                               *)

MaxTaskLen == 4

\* tokens matched by \w, and the punctuation the character class lists
WordTokens == Digits \cup {"Task"}

SafePunctuation == {"-", ".", ",", "(", ")", "'", "\""}

\* re.sub(r'[^\w\s\-.,()\'\"]+', '', task)
re_sub_harmful(task) ==
    SelectSeq(task,
              LAMBDA t : t \in WordTokens \cup Whitespace \cup SafePunctuation)

\* [task.strip() for task in tasks.split('\n') if task.strip()]
task_list(text) ==
    LET lines == str_split_sep(text, "\n")
        kept  == SelectSeq(lines, LAMBDA l : str_strip(l) # <<>>)
    IN  [i \in 1..Len(kept) |-> str_strip(kept[i])]

\* validate_tasks(tasks): a falsy argument gives [] at once
validate_tasks(arg) ==
    IF arg.type # "str" \/ arg.value = <<>> THEN <<>>
    ELSE LET tl == task_list(arg.value)
         IN  [i \in 1..Len(tl) |-> re_sub_harmful(tl[i])]

ValidateTasks ==
    /\ tasks_pc = "call"
    /\ tasks_result' = validate_tasks(tasks_arg)
    /\ tasks_pc' = "done"
    /\ UNCHANGED <<analysis_text, metricVars, recVars, tasks_arg,
                   analysisVars, wellnessVars, repeatVars, concVars, permVars,
                   appVars>>

TaskTokens == {"Task", "1", " ", "\n", "!", "-"}

TaskTexts ==
    {Str(t) : t \in UNION {[1..n -> TaskTokens] : n \in 0..MaxTaskLen}}

InitTasks ==
    /\ tasks_arg \in TaskTexts \cup {NoneArg}
    /\ tasks_pc = "call"
    /\ tasks_result = <<>>
    /\ analysis_text = NoneArg
    /\ mpc = "idle"
    /\ metrics = NoResult
    /\ InitRecVars
    /\ IdleAnalysis
    /\ IdleWellness
    /\ IdleRepeat
    /\ IdleConc
    /\ IdlePerm
    /\ IdleApp

NextTasks == ValidateTasks

SpecTasks == InitTasks /\ [][NextTasks]_vars

\* the lines of a text that hold something else than whitespace, in order
NonBlankLines(text) ==
    SelectSeq(str_split_sep(text, "\n"),
              LAMBDA l : \E i \in 1..Len(l) : l[i] \notin Whitespace)

\* C20: the result holds, in input order, one cleaned entry for each
\* non-blank line of the input, and no entry of the result is empty.
C20_OneNonEmptyEntryPerLine ==
    (tasks_pc = "done" /\ tasks_arg.type = "str") =>
        LET nb == NonBlankLines(tasks_arg.value)
        IN  /\ Len(tasks_result) = Len(nb)
            /\ \A i \in 1..Len(nb) :
                  tasks_result[i] = re_sub_harmful(str_strip(nb[i]))
            /\ \A i \in 1..Len(tasks_result) : tasks_result[i] # <<>>

----------------------------------------------------------------------------
(* InputValidator.validate_projects (SpecProjects)                         *)

MaxProjLines == 3

\* s.rstrip('%')
RECURSIVE str_rstrip_percent(_)
str_rstrip_percent(s) ==
    IF s # <<>> /\ s[Len(s)] = "%"
    THEN str_rstrip_percent(SubSeq(s, 1, Len(s) - 1))
    ELSE s

\* int(s): surrounding whitespace is dropped, one sign is allowed, and the
\* rest must be decimal digits; anything else raises ValueError
py_int(s) ==
    LET t == str_strip(s)
        signed == t # <<>> /\ t[1] \in {"-", "+"}
        ds == IF signed THEN Tail(t) ELSE t
    IN  IF ds = <<>> \/ \E i \in 1..Len(ds) : ds[i] \notin Digits
        THEN Raised("ValueError")
        ELSE [value |-> IF signed /\ t[1] = "-" THEN 0 - int_(ds) ELSE int_(ds)]

\* line.rsplit(',', 1): the text before and after the last comma, or the
\* line alone
rsplit_comma(line) ==
    LET at == {i \in 1..Len(line) : line[i] = ","}
    IN  IF at = {} THEN <<line>>
        ELSE LET p == CHOOSE i \in at : \A j \in at : j <= i
             IN  <<SubSeq(line, 1, p - 1), SubSeq(line, p + 1, Len(line))>>

Skipped == [skipped |-> TRUE]

project_of_line_norange(line) ==
    LET parts == rsplit_comma(line)
    IN  IF Len(parts) # 2 THEN Skipped
        ELSE LET project_name == str_strip(parts[1])
                 completion ==
                     py_int(str_rstrip_percent(str_strip(parts[2])))
             IN  IF IsRaised(completion) THEN Skipped
                 ELSE IF project_name = <<>> THEN Skipped
                 ELSE [name |-> project_name,
                       completion |-> completion.value]

\* the body of the loop for one line: the entry appended, or Skipped when
\* the line is passed over (ValueError, empty name, percentage out of range)
project_of_line(line) ==
    LET parts == rsplit_comma(line)
    IN  IF Len(parts) # 2 THEN Skipped
        ELSE LET project_name == str_strip(parts[1])
                 completion ==
                     py_int(str_rstrip_percent(str_strip(parts[2])))
             IN  IF IsRaised(completion) THEN Skipped
                 ELSE IF project_name = <<>> THEN Skipped
                 ELSE IF ~(0 <= completion.value /\ completion.value <= 100)
                      THEN Skipped
                 ELSE [name |-> project_name,
                       completion |-> completion.value]

\* the for loop over the lines
RECURSIVE validated_projects(_)
validated_projects(lines) ==
    IF lines = <<>> THEN <<>>
    ELSE LET e == project_of_line(Head(lines))
         IN  (IF e = Skipped THEN <<>> ELSE <<e>>) \o
             validated_projects(Tail(lines))

\* validate_projects(projects_str): a falsy argument gives [] at once
validate_projects(arg) ==
    IF arg.type # "str" \/ arg.value = <<>> THEN <<>>
    ELSE validated_projects(str_split_sep(str_strip(arg.value), "\n"))

ValidateProjects ==
    /\ projects_pc = "call"
    /\ projects_result' = validate_projects(projects_arg)
    /\ projects_pc' = "done"
    /\ UNCHANGED <<extractorVars, projects_arg, teamVars, authVars, catVars,
                   metaVars>>

ProjLines ==
    { <<"A", ",", " ", "7", "5", "%">>,
      <<"B", ",", "3", "0">>,
      <<"A", ",", " ", "B", ",", " ", "1", "0", "0", "%", "%">>,
      <<" ", "C", " ", ",", " ", "0", " ">>,
      <<"A", ",", " ", "1", "0", "1", "%">>,
      <<"A", ",", " ", "-", "5", "%">>,
      <<" ", ",", " ", "5", "0", "%">>,
      <<"A", " ", "5", "0", "%">>,
      <<"A", ",", " ", "5", "0", " ", "%">>,
      <<" ">> }

ProjTexts ==
    {Str(JoinLines(ls)) :
        ls \in UNION {[1..n -> ProjLines] : n \in 0..MaxProjLines}}

InitProjects ==
    /\ projects_arg \in ProjTexts \cup {NoneArg}
    /\ projects_pc = "call"
    /\ projects_result = <<>>
    /\ IdleExtractor
    /\ IdleTeam
    /\ IdleAuth
    /\ IdleCat
    /\ IdleMeta

NextProjects == ValidateProjects

SpecProjects == InitProjects /\ [][NextProjects]_vars

\* what validate_projects returns for each line of a text taken alone, one
\* after the other
RECURSIVE LineByLine(_)
LineByLine(lines) ==
    IF lines = <<>> THEN <<>>
    ELSE validate_projects(Str(Head(lines))) \o LineByLine(Tail(lines))

\* C21: every returned entry has a non-empty name and a completion in
\* 0..100, and the result is, in input order, what each line gives when it
\* is validated alone: a line that is skipped changes nothing for the others.
C21_ValidProjectsInOrder ==
    (projects_pc = "done" /\ projects_arg.type = "str") =>
        /\ \A i \in 1..Len(projects_result) :
              /\ projects_result[i].name # <<>>
              /\ projects_result[i].completion \in 0..100
        /\ projects_result =
              LineByLine(str_split_sep(projects_arg.value, "\n"))

\* a text with an accepted line, then a line out of range, then another
\* accepted line
C21_Witness ==
    /\ projects_pc = "done"
    /\ projects_arg = Str(<<"B", ",", "3", "0", "\n",
                            "A", ",", " ", "1", "0", "1", "%", "\n",
                            "A", ",", " ", "7", "5", "%">>)
    /\ projects_result = << [name |-> <<"B">>, completion |-> 30],
                            [name |-> <<"A">>, completion |-> 75] >>

----------------------------------------------------------------------------
(* ProfileManager.update_team_role (SpecTeamRole)                          *)

TeamIds == {"team1", "team2"}

\* get_profile(user_id): None when there is no row or the fetch raises
get_profile(table, user_id, fetch) ==
    IF fetch = "raises" \/ user_id \notin DOMAIN table THEN NoneArg
    ELSE [type |-> "UserProfile", user_id |-> user_id,
          team_role |-> table[user_id].team_role,
          team_id |-> table[user_id].team_id]

update_team_role_keep_team(table, args, outcome) ==
    LET found == get_profile(table, args.user_id, outcome.fetch)
        updated == [found EXCEPT !.team_role = args.new_role]
    IN  IF found = NoneArg
        THEN [result |-> NoneArg, updates |-> <<>>]
        ELSE [result |-> IF outcome.update = "data" THEN updated ELSE NoneArg,
              updates |-> << [user_id |-> args.user_id,
                              team_role |-> updated.team_role,
                              team_id |-> updated.team_id] >>]

\* update_team_role(user_id, team_id, new_role): the profile returned and
\* the update requests made
update_team_role(table, args, outcome) ==
    LET found == get_profile(table, args.user_id, outcome.fetch)
        updated == [found EXCEPT !.team_role = args.new_role,
                                   !.team_id = args.team_id]
    IN  IF found = NoneArg
        THEN [result |-> NoneArg, updates |-> <<>>]
        ELSE [result |-> IF outcome.update = "data" THEN updated ELSE NoneArg,
              updates |-> << [user_id |-> args.user_id,
                              team_role |-> updated.team_role,
                              team_id |-> updated.team_id] >>]

\* the table after an update request: written when the store returns data,
\* untouched when it returns none, either of the two when it raises
TablesAfter(table, upd, outcome) ==
    LET written == [table EXCEPT ![upd.user_id] =
                       [team_role |-> upd.team_role, team_id |-> upd.team_id]]
    IN  CASE outcome.update = "data" -> {written}
          [] outcome.update = "nodata" -> {table}
          [] outcome.update = "raises" -> {table, written}

UpdateTeamRole ==
    /\ tr_pc = "call"
    /\ LET r == update_team_role(tr_table, tr_args, tr_outcome)
       IN  /\ tr_result' = r.result
           /\ tr_updates' = r.updates
           /\ IF r.updates = <<>> THEN tr_table' = tr_table
              ELSE tr_table' \in TablesAfter(tr_table, r.updates[1], tr_outcome)
    /\ tr_pc' = "done"
    /\ UNCHANGED <<extractorVars, projVars, tr_args, tr_outcome, authVars,
                   catVars, metaVars>>

ProfileRows == [team_role : TeamRole, team_id : TeamIds]

ProfileTables == UNION {[us -> ProfileRows] : us \in SUBSET Users}

InitTeamRole ==
    /\ tr_table \in ProfileTables
    /\ tr_args \in [user_id : Users, team_id : TeamIds, new_role : TeamRole]
    /\ tr_outcome \in [fetch : {"ok", "raises"},
                       update : {"data", "nodata", "raises"}]
    /\ tr_pc = "call"
    /\ tr_result = NoResult
    /\ tr_updates = <<>>
    /\ IdleExtractor
    /\ IdleProj
    /\ IdleAuth
    /\ IdleCat
    /\ IdleMeta

NextTeamRole == UpdateTeamRole

SpecTeamRole == InitTeamRole /\ [][NextTeamRole]_vars

\* C22: with a stored profile, a fetch that works and an update that returns
\* data, the returned profile has the requested team role and team; with no
\* stored profile the call returns None and sends no update; when the update
\* returns no data or raises, the call returns None.
C22_UpdateTeamRole ==
    tr_pc = "done" =>
        /\ ( /\ tr_args.user_id \in DOMAIN tr_table
             /\ tr_outcome.fetch = "ok"
             /\ tr_outcome.update = "data" ) =>
              /\ tr_result.type = "UserProfile"
              /\ tr_result.user_id = tr_args.user_id
              /\ tr_result.team_role = tr_args.new_role
              /\ tr_result.team_id = tr_args.team_id
        /\ tr_args.user_id \notin DOMAIN tr_table =>
              (tr_result = NoneArg /\ tr_updates = <<>>)
        /\ tr_outcome.update \in {"nodata", "raises"} => tr_result = NoneArg

\* a member of team1 has been made lead of team2
C22_Witness ==
    /\ tr_pc = "done"
    /\ tr_result.type = "UserProfile"
    /\ tr_result.team_role = "lead"
    /\ tr_result.team_id = "team2"
    /\ tr_updates # <<>>
    /\ tr_table[tr_args.user_id] = [team_role |-> "lead", team_id |-> "team2"]
    /\ \E u \in DOMAIN tr_table :
          tr_table[u] = [team_role |-> "member", team_id |-> "team1"]

----------------------------------------------------------------------------
(* Authentication: apps/auth.py and UnifiedApp.run (SpecAuth)              *)
(*                                                                         *)
(* st.session_state is a function from the keys it holds to their values;  *)
(* None is the string "None".  One script run is BeginRun (the two app     *)
(* constructors, initialize_session_state, check_session) followed by      *)
(* LoginPage or AppPage; st.rerun() ends the run, and the run it schedules *)
(* is the next BeginRun with no widget input.                              *)

SetKey(s, k, v) == [x \in DOMAIN s \cup {k} |-> IF x = k THEN v ELSE s[x]]

\* if k not in st.session_state: st.session_state[k] = v
SetDefault(s, k, v) == IF k \in DOMAIN s THEN s ELSE SetKey(s, k, v)

EmptySession == [k \in {} |-> "None"]

\* the keys ComponentApp.__init__ and WPRApp.__init__ create when missing
ConstructorDefaults ==
    [current_component |-> "None", editing |-> FALSE,
     show_analytics |-> FALSE, show_metadata |-> FALSE,
     adding_component |-> FALSE, editing_category |-> "None",
     editing_tag |-> "None", confirm_delete |-> "None",
     confirm_delete_type |-> "None", metadata_operation |-> "None",
     last_operation_status |-> "None", last_operation_message |-> "None",
     wpr_week_number |-> "week", wpr_year |-> "year"]

construct_apps(s) ==
    [k \in DOMAIN s \cup DOMAIN ConstructorDefaults |->
        IF k \in DOMAIN s THEN s[k] ELSE ConstructorDefaults[k]]

SessionDefaults ==
    [authenticated |-> FALSE, user |-> "None", access_token |-> "None",
     refresh_token |-> "None", current_app |-> "Component Library"]

initialize_session_state(s) ==
    [k \in DOMAIN s \cup DOMAIN SessionDefaults |->
        IF k \in DOMAIN s THEN s[k] ELSE SessionDefaults[k]]

IolSuffix == <<"@", "iol", ".", "ph">>

is_valid_iol_email_contains(email) == str_contains(str_lower(email), IolSuffix)

is_valid_iol_email(email) == str_endswith(str_lower(email), IolSuffix)

check_session_trusting(s, bk) ==
    [ok |-> TRUE, session |-> s]

\* check_session(supabase): bk.get_user and bk.refresh are what the two
\* backend calls do (a raise is swallowed by the except blocks)
check_session(s, bk) ==
    IF s.access_token # "None" /\ bk.get_user = "user"
    THEN [ok |-> TRUE,
          session |-> [s EXCEPT !.authenticated = TRUE, !.user = "user1"]]
    ELSE IF s.refresh_token # "None" /\ bk.refresh = "session"
    THEN [ok |-> TRUE,
          session |-> [s EXCEPT !.access_token = "at2",
                                !.refresh_token = "rt2",
                                !.authenticated = TRUE,
                                !.user = "user1"]]
    ELSE [ok |-> FALSE, session |-> s]

handle_auth_error_keep(s) == initialize_session_state(s)

\* st.session_state.clear(); initialize_session_state()
handle_auth_error(s) == initialize_session_state(EmptySession)

\* login(supabase) for the widget input ev; bk.sign_in and bk.sign_up are
\* what the backend calls do
login(s, ev, bk) ==
    LET s1 == SetDefault(s, "verification_requested", FALSE)
        quiet == [session |-> s1, calls |-> <<>>, signed_in |-> FALSE]
    IN  CASE ev.kind = "login" ->
               IF ev.email = <<>> \/ ev.password = "" THEN quiet
               ELSE IF ~is_valid_iol_email(ev.email) THEN quiet
               ELSE LET call == [fn |-> "sign_in_with_password",
                                 email |-> ev.email,
                                 password |-> ev.password]
                    IN  IF bk.sign_in = "user"
                        THEN [session |-> [s1 EXCEPT
                                              !.access_token = "at1",
                                              !.refresh_token = "rt1",
                                              !.authenticated = TRUE,
                                              !.user = "user1"],
                              calls |-> <<call>>, signed_in |-> TRUE]
                        ELSE [session |-> s1, calls |-> <<call>>,
                              signed_in |-> FALSE]
          [] ev.kind = "signup" ->
               IF ev.email = <<>> \/ ev.password = "" \/ ev.confirm = ""
               THEN quiet
               ELSE IF ~is_valid_iol_email(ev.email) THEN quiet
               ELSE IF ev.password # ev.confirm THEN quiet
               ELSE LET call == [fn |-> "sign_up", email |-> ev.email,
                                 password |-> ev.password]
                    IN  [session |->
                            IF bk.sign_up = "user"
                            THEN [s1 EXCEPT !.verification_requested = TRUE]
                            ELSE s1,
                         calls |-> <<call>>, signed_in |-> FALSE]
          [] OTHER -> quiet

Apps == <<"Component Catalog", "Weekly Progress Report">>

Views == {Apps[i] : i \in 1..Len(Apps)}

AuthEmails ==
    { <<>>,
      <<"alice", "@", "iol", ".", "ph">>,
      <<"Alice", "@", "IOL", ".", "PH">>,
      <<"alice", "@", "iol", ".", "com">>,
      <<"alice", "@", "iol", ".", "ph", ".", "com">>,
      <<"alice", "@", "iol", ".", "ph", " ">>,
      <<"@", "iol", ".", "ph">>,
      <<"iol", ".", "ph">> }

Passwords == {"", "pw1", "pw2"}

NoEvent == [kind |-> "none"]

\* the widget inputs a user can give on the page the last run rendered
EventsOn(page) ==
    {NoEvent} \cup
    (IF page = "login"
     THEN [kind : {"login"}, email : AuthEmails, password : Passwords] \cup
          [kind : {"signup"}, email : AuthEmails, password : Passwords,
           confirm : Passwords]
     ELSE IF page \in Views
     THEN {[kind |-> "logout"]} \cup [kind : {"select"}, app : Views]
     ELSE {})

BeginRun ==
    /\ a_pc \in {"start", "done"}
    /\ event' \in EventsOn(shown)
    /\ \E bk \in [get_user : {"user", "none", "raises"},
                  refresh : {"session", "none", "raises"}] :
          LET r == check_session(
                       initialize_session_state(construct_apps(session)), bk)
          IN  /\ check_ok' = r.ok
              /\ session' = r.session
    /\ shown' = "none"
    /\ auth_calls' = <<>>
    /\ a_pc' = "checked"
    /\ UNCHANGED <<extractorVars, projVars, teamVars, logged_out, catVars,
                   metaVars>>

\* not check_session(supabase): login(supabase); return
LoginPage ==
    /\ a_pc = "checked"
    /\ ~check_ok
    /\ \E bk \in [sign_in : {"user", "nouser", "raises"},
                  sign_up : {"user", "nouser", "raises"}] :
          LET r == login(session, event, bk)
          IN  /\ session' = r.session
              /\ auth_calls' = r.calls
              /\ logged_out' = (logged_out /\ ~r.signed_in)
    /\ shown' = "login"
    /\ a_pc' = "done"
    /\ UNCHANGED <<extractorVars, projVars, teamVars, event, check_ok,
                   catVars, metaVars>>

\* the sidebar and the selected application
AppPage ==
    /\ a_pc = "checked"
    /\ check_ok
    /\ LET selected_app ==
               IF event.kind = "select" THEN event.app
               ELSE IF session.current_app \in Views
                    THEN session.current_app
                    ELSE Apps[1]
       IN  IF selected_app # session.current_app
           THEN /\ session' = [session EXCEPT !.current_app = selected_app]
                /\ UNCHANGED <<shown, logged_out>>
           ELSE IF event.kind = "logout"
           THEN /\ session' = handle_auth_error(session)
                /\ logged_out' = TRUE
                /\ UNCHANGED shown
           ELSE /\ shown' = session.current_app
                /\ UNCHANGED <<session, logged_out>>
    /\ a_pc' = "done"
    /\ UNCHANGED <<extractorVars, projVars, teamVars, event, check_ok,
                   auth_calls, catVars, metaVars>>

InitAuth ==
    /\ session = EmptySession
    /\ event = NoEvent
    /\ a_pc = "start"
    /\ check_ok = FALSE
    /\ shown = "none"
    /\ auth_calls = <<>>
    /\ logged_out = FALSE
    /\ IdleExtractor
    /\ IdleProj
    /\ IdleTeam
    /\ IdleCat
    /\ IdleMeta

NextAuth ==
    \/ BeginRun
    \/ LoginPage
    \/ AppPage

SpecAuth == InitAuth /\ [][NextAuth]_vars

\* C23: an application view is on the page only in a run whose
\* check_session returned True; when check_session has returned True the
\* session holds authenticated = True and a user; a run whose check_session
\* returned False ends with the login page.
C23_ViewsNeedSession ==
    /\ shown \in Views => check_ok
    /\ (a_pc = "checked" /\ check_ok) =>
          (session.authenticated = TRUE /\ session.user # "None")
    /\ (a_pc = "done" /\ ~check_ok) => shown = "login"

\* the report view is shown in a run that refreshed the session
C23_Witness ==
    /\ a_pc = "done"
    /\ check_ok
    /\ shown = "Weekly Progress Report"
    /\ session.access_token = "at2"

\* the email, in lower case, ends with @iol.ph
EndsWithIol(email) ==
    /\ Len(email) >= 4
    /\ email[Len(email) - 3] = "@"
    /\ email[Len(email) - 2] \in {"iol", "IOL"}
    /\ email[Len(email) - 1] = "."
    /\ email[Len(email)] \in {"ph", "PH"}

\* the submitted form passes the checks of its form
Acceptable(ev) ==
    /\ ev.kind \in {"login", "signup"}
    /\ ev.email # <<>>
    /\ ev.password # ""
    /\ EndsWithIol(ev.email)
    /\ ev.kind = "signup" => (ev.confirm # "" /\ ev.confirm = ev.password)

AuthPart(s) ==
    [k \in {"authenticated", "access_token", "refresh_token"} |-> s[k]]

\* C24: a run calls sign_in_with_password only for a submitted login form
\* and sign_up only for a submitted sign-up form, and only when all fields
\* are filled, the email ends with @iol.ph in any letter case and, for
\* sign-up, the passwords match; a run that rejects the submitted form makes
\* no such call and leaves authenticated and the two tokens as they were.
C24_BackendOnlyWhenValid ==
    /\ [](\A i \in 1..Len(auth_calls) :
            /\ Acceptable(event)
            /\ auth_calls[i].fn = "sign_in_with_password"
                  <=> event.kind = "login"
            /\ auth_calls[i].fn = "sign_up" <=> event.kind = "signup"
            /\ auth_calls[i].email = event.email)
    /\ [][ /\ ( /\ a_pc = "done"
                /\ a_pc' = "checked"
                /\ ~check_ok'
                /\ event'.kind \in {"login", "signup"}
                /\ ~Acceptable(event') ) =>
                  AuthPart(session') = AuthPart(session)
           /\ ( /\ a_pc = "checked"
                /\ ~check_ok
                /\ event.kind \in {"login", "signup"}
                /\ ~Acceptable(event) ) =>
                  /\ auth_calls' = <<>>
                  /\ AuthPart(session') = AuthPart(session) ]_vars

\* a sign-up with an upper-case address has reached the backend while stale
\* tokens of an expired session are still held
C24_Witness ==
    /\ a_pc = "done"
    /\ shown = "login"
    /\ event.kind = "signup"
    /\ event.email = <<"Alice", "@", "IOL", ".", "PH">>
    /\ auth_calls # <<>>
    /\ session.verification_requested = TRUE
    /\ session.access_token # "None"

\* the run that handled the Logout click has just ended
AfterLogout == a_pc = "done" /\ event.kind = "logout" /\ logged_out

\* C25 as stated: after Logout the session holds authenticated = False and
\* user and both tokens None, and holds no other key; and no application
\* view is shown until a login succeeds.
C25_LogoutLeavesNothingElse ==
    /\ AfterLogout =>
          /\ session.authenticated = FALSE
          /\ session.user = "None"
          /\ session.access_token = "None"
          /\ session.refresh_token = "None"
          /\ DOMAIN session \subseteq
                {"authenticated", "user", "access_token", "refresh_token"}
    /\ logged_out => shown \notin Views

\* C25: after Logout the session holds exactly the five keys of
\* initialize_session_state at their defaults (authenticated False, user and
\* both tokens None, current_app "Component Library"), and no application
\* view is shown until a login succeeds.
C25_LogoutResetsSession ==
    /\ AfterLogout => session = SessionDefaults
    /\ logged_out => shown \notin Views

\* after a Logout a login attempt reached the backend and failed, and the
\* login page is still what is shown
C25_Witness ==
    /\ logged_out
    /\ a_pc = "done"
    /\ shown = "login"
    /\ event.kind = "login"
    /\ auth_calls # <<>>
    /\ session.access_token = "None"

----------------------------------------------------------------------------
(* Component Catalog: ComponentApp.render and the wizard (SpecCatalog)     *)
(*                                                                         *)
(* One action is one script run: ComponentApp.__init__, then render() with *)
(* the widget input of the run.  A field of form_data is "absent", "" (any *)
(* falsy value) or "x" (any filled value).                                 *)

ComponentIds == {"comp1", "comp2"}

CatalogDefaults ==
    [current_component |-> "None", editing |-> FALSE,
     show_analytics |-> FALSE, show_metadata |-> FALSE,
     adding_component |-> FALSE]

\* ComponentApp.__init__: every missing key gets its default
component_app_init(s) ==
    [k \in DOMAIN s \cup DOMAIN CatalogDefaults |->
        IF k \in DOMAIN s THEN s[k] ELSE CatalogDefaults[k]]

SidebarButtons == {"add", "library", "analytics", "metadata"}

sidebar_button_sticky(s, b) ==
    [s EXCEPT !.adding_component = (b = "add") \/ @,
              !.show_analytics = (b = "analytics"),
              !.show_metadata = (b = "metadata"),
              !.current_component = "None",
              !.editing = FALSE]

\* the four sidebar buttons of render()
sidebar_button(s, b) ==
    [s EXCEPT !.adding_component = (b = "add"),
              !.show_analytics = (b = "analytics"),
              !.show_metadata = (b = "metadata"),
              !.current_component = "None",
              !.editing = FALSE]

FormKeys ==
    {"form_data", "component_step", "edit_component", "current_component",
     "adding_component", "editing"}

clear_form_state(s) == [k \in DOMAIN s \ FormKeys |-> s[k]]

FormFields ==
    {"id", "name", "type", "version", "description", "technology_stack",
     "category_id"}

EmptyFormData == [f \in FormFields |-> "absent"]

\* not form_data.get(field)
Falsy(v) == v \in {"absent", "", "None"}

\* the stored row of a component; comp2 has lost its category
ComponentData(c) ==
    [f \in FormFields |->
        IF f = "id" THEN c
        ELSE IF f = "category_id" /\ c = "comp2" THEN "None"
        ELSE "x"]

LastStep == 4

\* the fields the render function of each step writes (steps 0..4)
StepFields(step) ==
    CASE step = 0 -> {"name", "type", "version", "description"}
      [] step = 1 -> {"technology_stack"}
      [] step = 4 -> {"category_id"}
      [] OTHER -> {}

\* the fields of a step the user types, and so can leave empty
TypedFields(step) == StepFields(step) \ {"type", "category_id"}

required_fields(step) == StepFields(step)

validate_current_step_lax(step, form_data) ==
    \A f \in required_fields(step) : form_data[f] # "None"

validate_current_step(step, form_data) ==
    \A f \in required_fields(step) : ~Falsy(form_data[f])

\* validate_component_data(form_data)
validate_component_data(form_data) ==
    \A f \in {"name", "type", "version", "description", "category_id"} :
        ~Falsy(form_data[f])

\* what the widgets of the step leave in form_data: the submitted values,
\* or the stored value (the widget default where there is none)
render_step(form_data, step, ev) ==
    [f \in FormFields |->
        IF f \notin StepFields(step) THEN form_data[f]
        ELSE IF f = "type" THEN "x"
        ELSE IF f = "category_id"
             THEN (IF ev.categories THEN "x" ELSE form_data[f])
        ELSE IF ev.kind = "submit" THEN ev.typed[f]
        ELSE IF form_data[f] = "absent"
             THEN (IF f = "version" THEN "x" ELSE "")
        ELSE form_data[f]]

NoSave == NoResult

Outcome(s, page, rerun, save) ==
    [session |-> s, page |-> page, rerun |-> rerun, save |-> save]

\* save_component(supabase, form_data, mode)
save_component(form_data, mode, db_ok) ==
    IF ~validate_component_data(form_data) THEN FALSE
    ELSE IF mode = "edit" /\ Falsy(form_data.id) THEN FALSE
    ELSE db_ok

\* component_form(supabase, mode, component_data)
component_form(s, mode, page, ev) ==
    IF ev.kind = "wizard_return"
    THEN Outcome(clear_form_state(s), page, TRUE, NoSave)
    ELSE
    LET s1 == SetDefault(s, "form_data",
                         IF mode = "edit"
                         THEN ComponentData(s.current_component)
                         ELSE EmptyFormData)
        s2 == SetDefault(s1, "component_step", 0)
        current_step == s2.component_step
        fd == render_step(s2.form_data, current_step, ev)
        s3 == [s2 EXCEPT !.form_data = fd]
        button == IF ev.kind = "submit" THEN ev.button ELSE "none"
    IN  IF button = "previous" /\ current_step > 0
        THEN Outcome([s3 EXCEPT !.component_step = current_step - 1],
                     page, TRUE, NoSave)
        ELSE IF button = "next" /\ current_step < LastStep
        THEN IF validate_current_step(current_step, fd)
             THEN Outcome([s3 EXCEPT !.component_step = current_step + 1],
                          page, TRUE, NoSave)
             ELSE Outcome(s3, page, FALSE, NoSave)
        ELSE IF button = "save" /\ current_step = LastStep
        THEN IF validate_current_step(current_step, fd)
             THEN LET ok == save_component(fd, mode, ev.db_ok)
                      call == [mode |-> mode, step |-> current_step,
                               id |-> fd.id,
                               selected |-> s.current_component,
                               category_id |-> fd.category_id, ok |-> ok]
                  IN  IF ok
                      THEN Outcome(clear_form_state(s3), page, TRUE, call)
                      ELSE Outcome(s3, page, FALSE, call)
             ELSE Outcome(s3, page, FALSE, NoSave)
        ELSE Outcome(s3, page, FALSE, NoSave)

\* view_component_library: the View Details button of a component
view_component_library(s, ev) ==
    IF ev.kind = "view_details"
    THEN Outcome([s EXCEPT !.current_component = ev.component,
                           !.editing = FALSE], "library", TRUE, NoSave)
    ELSE Outcome(s, "library", FALSE, NoSave)

\* view_component_details: the Edit and Return buttons
view_component_details(s, ev) ==
    IF ev.kind = "edit"
    THEN Outcome([s EXCEPT !.editing = TRUE], "details", TRUE, NoSave)
    ELSE IF ev.kind = "return"
    THEN Outcome([s EXCEPT !.current_component = "None"], "details", TRUE,
                 NoSave)
    ELSE Outcome(s, "details", FALSE, NoSave)

\* ComponentApp.render() after ComponentApp.__init__, for the widget input
\* ev of the run; page is the page rendered before
render(s0, page, ev) ==
    LET s == component_app_init(s0)
    IN  IF ev.kind \in SidebarButtons
        THEN Outcome(sidebar_button(s, ev.kind), page, TRUE, NoSave)
        ELSE IF s.adding_component
        THEN component_form(s, "add", "wizard_add", ev)
        ELSE IF s.show_analytics THEN Outcome(s, "analytics", FALSE, NoSave)
        ELSE IF s.show_metadata THEN Outcome(s, "metadata", FALSE, NoSave)
        ELSE IF s.current_component # "None"
        THEN IF s.editing
             THEN component_form(s, "edit", "wizard_edit", ev)
             ELSE view_component_details(s, ev)
        ELSE view_component_library(s, ev)

WizardPages == {"wizard_add", "wizard_edit"}

\* the step the wizard on the page is at
StepOf(s) == IF "component_step" \in DOMAIN s THEN s.component_step ELSE 0

\* the widget inputs a user can give on a page
CatalogEvents(page, s) ==
    IF page = "library"
    THEN [kind : {"view_details"}, component : ComponentIds]
    ELSE IF page = "details"
    THEN {[kind |-> "edit"], [kind |-> "return"]}
    ELSE IF page \in WizardPages
    THEN {[kind |-> "wizard_return"]} \cup
         [kind : {"submit"},
          button : {"step"} \cup
                   (IF StepOf(s) > 0 THEN {"previous"} ELSE {}) \cup
                   (IF StepOf(s) < LastStep THEN {"next"} ELSE {"save"}),
          typed : [TypedFields(StepOf(s)) -> {"", "x"}],
          categories : BOOLEAN,
          db_ok : BOOLEAN]
    ELSE {}

PlainRun == [kind |-> "none", categories |-> TRUE]

Run(ev) ==
    /\ LET r == render(cat_session, cat_page, ev)
       IN  /\ cat_session' = r.session
           /\ cat_page' = r.page
           /\ cat_rerun' = r.rerun
           /\ last_save' = IF r.save = NoSave THEN last_save ELSE r.save
    /\ cat_event' = IF ev.kind = "submit" THEN ev.button ELSE ev.kind
    /\ UNCHANGED <<extractorVars, projVars, teamVars, authVars, metaVars>>

\* the run st.rerun() starts: no widget input
RunRerun ==
    /\ cat_rerun
    /\ Run(PlainRun)

\* the first run of a session, or a reload of the page: no widget input
RunReload ==
    /\ ~cat_rerun
    /\ Run(PlainRun)

\* a click on one of the four sidebar buttons
RunSidebar ==
    /\ ~cat_rerun
    /\ cat_page # "none"
    /\ \E b \in SidebarButtons : Run([kind |-> b])

\* a click on a button of the page, or a submitted wizard form
RunPageInput ==
    /\ ~cat_rerun
    /\ \E ev \in CatalogEvents(cat_page, cat_session) : Run(ev)

InitCatalog ==
    /\ cat_session = EmptySession
    /\ cat_page = "none"
    /\ cat_rerun = FALSE
    /\ cat_event = "none"
    /\ last_save = NoResult
    /\ IdleExtractor
    /\ IdleProj
    /\ IdleTeam
    /\ IdleAuth
    /\ IdleMeta

NextCatalog ==
    \/ RunRerun
    \/ RunReload
    \/ RunSidebar
    \/ RunPageInput

SpecCatalog == InitCatalog /\ [][NextCatalog]_vars

\* the flag k of the session is set
Flag(k) == k \in DOMAIN cat_session /\ cat_session[k] = TRUE

\* C26: at most one of adding_component, show_analytics and show_metadata
\* is True, and the run of a sidebar button ends with editing = False and
\* current_component = None.
C26_OneViewFlag ==
    /\ Cardinality({k \in {"adding_component", "show_analytics",
                           "show_metadata"} : Flag(k)}) <= 1
    /\ cat_event \in SidebarButtons =>
          /\ cat_session.editing = FALSE
          /\ cat_session.current_component = "None"

\* Analytics was clicked while a component was being edited
C26_Witness ==
    /\ cat_event = "analytics"
    /\ Flag("show_analytics")
    /\ "form_data" \in DOMAIN cat_session
    /\ cat_session.form_data.id = "comp1"
    /\ cat_page = "wizard_edit"

\* the wizard's step counter is in the session
HasStep(s) == "component_step" \in DOMAIN s

\* C27: the wizard's step is within 0..4 and changes by one per click; Next
\* advances only when every required field of the step it leaves is
\* non-empty, Previous goes back without validating, and save_component is
\* called only from the last step after that step's validation passed.
C27_WizardSteps ==
    /\ [](/\ HasStep(cat_session) =>
                cat_session.component_step \in 0..LastStep
          /\ last_save # NoResult =>
                /\ last_save.step = LastStep
                /\ ~Falsy(last_save.category_id))
    /\ [][/\ (/\ HasStep(cat_session)
              /\ HasStep(cat_session')
              /\ cat_session'.component_step # cat_session.component_step)
             => \/ /\ cat_session'.component_step
                        = cat_session.component_step + 1
                   /\ cat_event' = "next"
                   /\ \A f \in required_fields(cat_session.component_step) :
                         ~Falsy(cat_session'.form_data[f])
                \/ /\ cat_session'.component_step
                        = cat_session.component_step - 1
                   /\ cat_event' = "previous"
          /\ last_save' # last_save =>
                /\ cat_event' = "save"
                /\ HasStep(cat_session)
                /\ cat_session.component_step = LastStep]_vars

\* after a save that failed in the database the user went back to step 1,
\* emptied its required field, and Previous still took them to step 0
C27_Witness ==
    /\ cat_event = "previous"
    /\ HasStep(cat_session)
    /\ cat_session.component_step = 0
    /\ cat_session.form_data.technology_stack = ""
    /\ last_save # NoResult
    /\ ~last_save.ok

\* the last run rendered the wizard for the session as it now is
WizardShown(page) == ~cat_rerun /\ cat_page = page

\* C28: a wizard opened in edit mode starts at step 0 with the data of the
\* selected component, so Save updates the component currently selected
\* (form_data id = current_component), and a wizard opened in add mode
\* carries no data of an earlier edit.
C28_WizardOpensFresh ==
    /\ [](/\ WizardShown("wizard_edit") =>
                cat_session.form_data.id = cat_session.current_component
          /\ WizardShown("wizard_add") =>
                cat_session.form_data.id = "absent"
          /\ (last_save # NoResult /\ last_save.mode = "edit") =>
                last_save.id = last_save.selected)
    /\ [][(cat_page \notin WizardPages /\ cat_page' \in WizardPages) =>
             cat_session'.component_step = 0]_vars

----------------------------------------------------------------------------
(* manage_metadata: categories of the Component Catalog (SpecMetadata)     *)
(*                                                                         *)
(* categories is the table of the database, id -> name.  Several sessions  *)
(* use the page; a run of the script is one action.  The tags tab repeats  *)
(* the code of the categories tab on the tags table.  A name is one token, *)
(* without surrounding whitespace.                                         *)

Sessions == {"s1", "s2"}

CategoryIds == {"cat1", "cat2"}

CategoryNames == {"", "Backend", "backend", "Frontend"}

\* the components whose category the model follows
Categorised == {"comp1"}

EmptyTable == <<>>

\* the table without the row id
without(table, id) == [i \in DOMAIN table \ {id} |-> table[i]]

\* the table with the row id set to name
with(table, id, name) ==
    [i \in DOMAIN table \cup {id} |-> IF i = id THEN name ELSE table[i]]

\* clear_metadata_cache(): the shared cache and the session's own frame
clear_metadata_cache(s) ==
    /\ data_cache' = NoResult
    /\ session_cache' = [session_cache EXCEPT ![s] = NoResult]

\* get_cached_categories(supabase) called by session s: the frame it
\* returns and the caches it leaves
get_cached_categories(s) ==
    LET df == IF data_cache # NoResult THEN data_cache
              ELSE IF session_cache[s] # NoResult THEN session_cache[s]
              ELSE categories
    IN  [df |-> df,
         data_cache |-> df,
         session_cache |->
             IF data_cache = NoResult
             THEN [session_cache EXCEPT ![s] = df]
             ELSE session_cache]

\* the run only read the categories
keep_caches(s) ==
    /\ data_cache' = get_cached_categories(s).data_cache
    /\ session_cache' = get_cached_categories(s).session_cache

\* validate_name(name, existing_names)
validate_name(name, existing_names) ==
    /\ name # ""
    /\ name \notin existing_names

\* the unique constraint on categories.name the "duplicate key value"
\* branch answers: another row has exactly this name
duplicate_key(table, id, name) ==
    \E i \in DOMAIN table \ {id} : table[i] = name

\* the ttl of the shared cache entry ran out
CacheExpire ==
    /\ data_cache # NoResult
    /\ data_cache' = NoResult
    /\ UNCHANGED <<categories, comp_category, issued, session_cache,
                   editing_category, meta_op>>
    /\ UNCHANGED <<extractorVars, projVars, teamVars, authVars, catVars>>

\* the "Add Category" form
AddCategory(s) ==
    \E new_category \in CategoryNames \ {""}, id \in CategoryIds \ issued :
        LET existing == {categories[i] : i \in DOMAIN categories}
            duplicate == \E n \in existing :
                            LowerTok(n) = LowerTok(new_category)
        IN  /\ IF duplicate
               THEN /\ UNCHANGED <<categories, issued, data_cache,
                                   session_cache>>
               ELSE /\ categories' = with(categories, id, new_category)
                    /\ issued' = issued \cup {id}
                    /\ clear_metadata_cache(s)
            /\ meta_op' = [op |-> "add"]
            /\ UNCHANGED <<comp_category, editing_category>>
            /\ UNCHANGED <<extractorVars, projVars, teamVars, authVars,
                           catVars>>

\* the edit button of a listed category
EditCategory(s) ==
    \E id \in DOMAIN get_cached_categories(s).df :
        /\ editing_category' = [editing_category EXCEPT ![s] = id]
        /\ keep_caches(s)
        /\ meta_op' = [op |-> "edit"]
        /\ UNCHANGED <<categories, comp_category, issued>>
        /\ UNCHANGED <<extractorVars, projVars, teamVars, authVars, catVars>>

\* Save of the edit form of the category the session is editing
SaveCategory(s) ==
    \E edited_name \in CategoryNames :
        LET df == get_cached_categories(s).df
            id == editing_category[s]
            other_categories ==
                {df[i] : i \in DOMAIN df} \ {df[id]}
            valid == validate_name(edited_name, other_categories)
            verified == id \in DOMAIN categories
            raised == verified /\ duplicate_key(categories, id, edited_name)
            updated == valid /\ verified /\ ~raised
        IN  /\ id \in DOMAIN df
            /\ IF updated
               THEN /\ categories' = with(categories, id, edited_name)
                    /\ clear_metadata_cache(s)
               ELSE /\ UNCHANGED categories
                    /\ keep_caches(s)
            /\ editing_category' =
                   IF valid /\ ~raised
                   THEN [editing_category EXCEPT ![s] = "None"]
                   ELSE editing_category
            /\ meta_op' = [op |-> "rename"]
            /\ UNCHANGED <<comp_category, issued>>
            /\ UNCHANGED <<extractorVars, projVars, teamVars, authVars,
                           catVars>>

DeleteOutcomes == {"update_raised", "delete_raised", "ok"}

delete_category_keep_references(table, comps, id, outcome) ==
    [categories |-> IF outcome = "ok" THEN without(table, id) ELSE table,
     comp_category |-> comps,
     deleted |-> outcome = "ok"]

\* the delete button: the two database calls of the handler, each of which
\* succeeds or raises
delete_category(table, comps, id, outcome) ==
    IF outcome = "update_raised"
    THEN [categories |-> table, comp_category |-> comps, deleted |-> FALSE]
    ELSE [categories |-> IF outcome = "ok" THEN without(table, id)
                         ELSE table,
          comp_category |->
              [c \in DOMAIN comps |->
                  IF comps[c] = id THEN "None" ELSE comps[c]],
          deleted |-> outcome = "ok"]

\* the delete button of a listed category
DeleteCategory(s) ==
    \E id \in DOMAIN get_cached_categories(s).df,
       outcome \in DeleteOutcomes :
        LET r == delete_category(categories, comp_category, id, outcome)
        IN  /\ categories' = r.categories
            /\ comp_category' = r.comp_category
            /\ IF r.deleted THEN clear_metadata_cache(s) ELSE keep_caches(s)
            /\ meta_op' = [op |-> "delete", id |-> id,
                           update_ok |-> outcome # "update_raised",
                           deleted |-> r.deleted,
                           referenced |->
                               \E c \in DOMAIN comp_category :
                                   comp_category[c] = id]
            /\ UNCHANGED <<issued, editing_category>>
            /\ UNCHANGED <<extractorVars, projVars, teamVars, authVars,
                           catVars>>

\* the wizard of session s saves a component with the category chosen in
\* render_metadata; components.category_id references categories (the
\* selects embed categories(name)), so the database refuses an id that is
\* not in the table
SaveComponent(s) ==
    \E c \in Categorised, id \in DOMAIN get_cached_categories(s).df :
        /\ comp_category' =
               IF id \in DOMAIN categories
               THEN [comp_category EXCEPT ![c] = id]
               ELSE comp_category
        /\ keep_caches(s)
        /\ meta_op' = [op |-> "save_component"]
        /\ UNCHANGED <<categories, issued, editing_category>>
        /\ UNCHANGED <<extractorVars, projVars, teamVars, authVars, catVars>>

InitMetadata ==
    /\ categories = EmptyTable
    /\ comp_category = [c \in Categorised |-> "None"]
    /\ issued = {}
    /\ data_cache = NoResult
    /\ session_cache = [s \in Sessions |-> NoResult]
    /\ editing_category = [s \in Sessions |-> "None"]
    /\ meta_op = NoResult
    /\ IdleExtractor
    /\ IdleProj
    /\ IdleTeam
    /\ IdleAuth
    /\ IdleCat

NextMetadata ==
    \/ CacheExpire
    \/ \E s \in Sessions : AddCategory(s)
    \/ \E s \in Sessions : EditCategory(s)
    \/ \E s \in Sessions : SaveCategory(s)
    \/ \E s \in Sessions : DeleteCategory(s)
    \/ \E s \in Sessions : SaveComponent(s)

SpecMetadata == InitMetadata /\ [][NextMetadata]_vars

\* C29: after any sequence of add and rename operations, by one session or
\* by several, no two categories have names that are equal ignoring
\* letter case.
C29_NamesDifferIgnoringCase ==
    \A i, j \in DOMAIN categories :
        i # j => LowerTok(categories[i]) # LowerTok(categories[j])

====
